---- MODULE Spec2Model ----
(***************************************************************************)
(* Film Creative RAG: the screenplay tokenizer and entity extractor, the   *)
(* knowledge store and its persistence, the LLM invocations, the upload    *)
(* system, the PDF mood-board extractor and the brightness classifier.     *)
(*                                                                         *)
(* Python strings are sequences of one-character strings, so that strip,   *)
(* split, startswith, isupper and the substring test are computed as the   *)
(* code computes them.                                                     *)
(***************************************************************************)
EXTENDS Integers, Sequences, FiniteSets, TLC

VARIABLES
    content,          \* the screenplay text handed to the tokenizers
    pc,               \* position of the text pipeline
    chunks,           \* result of FilmRAGCore.chunk_screenplay
    entities,         \* result of FilmRAGCore.extract_entities
    parsed,           \* result of ScreenplayParser.parse_screenplay
    processed,        \* result of FilmUploadSystem.process_screenplay
    knowledge_store,  \* FilmRAGCore.knowledge_store
    store_file,       \* the file knowledge_store.json
    session,          \* the current process: what it found on disk, added, loaded
    last,             \* how the last operation ended: returned value or exception
    fault,            \* the failure the environment dealt the last operation
    http_log,         \* the HTTP exchanges of the last operation, in order
    nops,             \* operations run so far, where a specification counts them
    rag_engine,       \* FilmChatSystem.rag_engine: whether a FilmRAGCore is attached
    chat_history,     \* FilmChatSystem.chat_history
    tasks,            \* the chat() invocations of the handlers: where each one is
    running,          \* the handler whose invocation the event loop is running
    uploads,          \* the files under FilmUploadSystem.upload_dir
    upload_log,       \* the uploads that returned a record: the file and its upload_id
    current_project,  \* FilmCreativeRAGUI.current_project
    ui_upload,        \* the process_upload call the last upload_file made, if any
    extracted_data,   \* MoodBoardExtractor.extracted_data
    pdf_disk,         \* the files under MoodBoardExtractor.output_dir
    image,            \* the image handed to VisualMoodAnalyzer.analyze_brightness
    setup,            \* OllamaSetup.run_setup: its position and what it has done
    config,           \* FilmCreativeRAGDemo.config
    config_file,      \* configs/ollama_config.json as load_config found it
    service           \* OllamaSetup.start_ollama_service: its position and counts

textVars == <<content, pc, chunks, entities, parsed, processed>>
storeVars == <<knowledge_store, store_file, session>>
chatVars == <<rag_engine, chat_history, tasks, running>>
uploadVars == <<uploads, upload_log, current_project, ui_upload>>
pdfVars == <<extracted_data, pdf_disk>>
imageVars == <<image>>
setupVars == <<setup, config, config_file, service>>
opVars == <<last, fault, http_log>>

vars == <<textVars, storeVars, chatVars, uploadVars, pdfVars, imageVars, setupVars, opVars, nops>>

----------------------------------------------------------------------------
(* Bounds of the model *)

\* longest input text, in lines
MaxLines == 3

----------------------------------------------------------------------------
(* Python str operations *)

UpperChars == {"A", "B", "C", "D", "E", "F", "G", "H", "I", "J", "K", "L", "M",
               "N", "O", "P", "Q", "R", "S", "T", "U", "V", "W", "X", "Y", "Z"}

LowerChars == {"a", "b", "c", "d", "e", "f", "g", "h", "i", "j", "k", "l", "m",
               "n", "o", "p", "q", "r", "s", "t", "u", "v", "w", "x", "y", "z"}

\* the characters str.strip() and str.split() treat as whitespace
Whitespace == {" ", "\t", "\n", "\r"}

NL == <<"\n">>

\* Python's None
None == "None"

RECURSIVE LStrip(_)
LStrip(s) ==
    IF s = <<>> THEN s
    ELSE IF Head(s) \in Whitespace THEN LStrip(Tail(s)) ELSE s

RECURSIVE RStrip(_)
RStrip(s) ==
    IF s = <<>> THEN s
    ELSE IF s[Len(s)] \in Whitespace THEN RStrip(SubSeq(s, 1, Len(s) - 1)) ELSE s

\* str.strip()
Strip(s) == RStrip(LStrip(s))

\* str.startswith(p)
StartsWith(s, p) == Len(s) >= Len(p) /\ SubSeq(s, 1, Len(p)) = p

\* p in s
Contains(s, p) ==
    \E i \in 1..(Len(s) - Len(p) + 1) : SubSeq(s, i, i + Len(p) - 1) = p

\* str.isupper(): at least one cased character and no lowercase one
IsUpper(s) ==
    /\ \E i \in 1..Len(s) : s[i] \in UpperChars
    /\ \A i \in 1..Len(s) : s[i] \notin LowerChars

\* str.split(sep) for a one-character separator
RECURSIVE SplitAcc(_, _, _, _)
SplitAcc(s, sep, cur, acc) ==
    IF s = <<>> THEN Append(acc, cur)
    ELSE IF Head(s) = sep THEN SplitAcc(Tail(s), sep, <<>>, Append(acc, cur))
    ELSE SplitAcc(Tail(s), sep, Append(cur, Head(s)), acc)

Split(s, sep) == SplitAcc(s, sep, <<>>, <<>>)

\* str.split(): runs of whitespace separate, empty words are dropped
RECURSIVE WordsAcc(_, _, _)
WordsAcc(s, cur, acc) ==
    IF s = <<>> THEN (IF cur = <<>> THEN acc ELSE Append(acc, cur))
    ELSE IF Head(s) \in Whitespace
         THEN WordsAcc(Tail(s), <<>>, IF cur = <<>> THEN acc ELSE Append(acc, cur))
         ELSE WordsAcc(Tail(s), Append(cur, Head(s)), acc)

SplitWords(s) == WordsAcc(s, <<>>, <<>>)

\* "\n".join(lines)
RECURSIVE JoinLines(_)
JoinLines(ls) ==
    IF ls = <<>> THEN <<>>
    ELSE IF Len(ls) = 1 THEN ls[1]
    ELSE ls[1] \o NL \o JoinLines(Tail(ls))

\* list(a_set): the elements in an order the code does not control
ListOfSet(S) ==
    {p \in [1..Cardinality(S) -> S] : \A i, j \in 1..Cardinality(S) : p[i] = p[j] => i = j}

\* the elements of a list
Range(f) == {f[i] : i \in DOMAIN f}

\* a_list[:n]
Take(s, n) == SubSeq(s, 1, IF Len(s) < n THEN Len(s) ELSE n)

----------------------------------------------------------------------------
(* Input lines of screenplay text *)

LineInt == <<"I","N","T","."," ","L","A","B"," ","-"," ","D","A","Y">>
LineExt == <<" ","E","X","T","."," ","L","A","B">>
LineFadeIn == <<"F","A","D","E"," ","I","N",":">>
LineFadeTo == <<"F","A","D","E"," ","T","O"," ","B","L","A","C","K",".">>
LineAlice == <<"A","L","I","C","E">>
LineBob == <<" ","B","O","B"," ">>
LineTheEnd == <<"T","H","E"," ","E","N","D">>
LineVoice == <<"A","L","I","C","E"," ","(","V",".","O",".",")">>
LineProse == <<"H","i"," ","B","O","B",".">>
LineShout == <<"G","O"," ","G","O"," ","G","O"," ","G","O">>
LineBlank == <<>>

RawLines == {LineInt, LineExt, LineFadeIn, LineFadeTo, LineAlice, LineBob,
             LineTheEnd, LineVoice, LineProse, LineShout, LineBlank}

\* every text of at most MaxLines lines
Texts == {JoinLines(ls) : ls \in UNION {[1..n -> RawLines] : n \in 0..MaxLines}}

----------------------------------------------------------------------------
(* FilmRAGCore.chunk_screenplay *)

\* at most this many words in a character cue
MaxCueWords == 3

SceneBreakPrefixes ==
    { <<"I","N","T",".">>, <<"E","X","T",".">>,
      <<"F","A","D","E"," ","I","N">>, <<"F","A","D","E"," ","O","U","T">> }

\* variant: only INT. and EXT. open a scene, as in parse_screenplay
IsSceneBreak_NoFade(line) ==
    StartsWith(line, <<"I","N","T",".">>) \/ StartsWith(line, <<"E","X","T",".">>)

\* line.startswith(('INT.', 'EXT.', 'FADE IN', 'FADE OUT'))
IsSceneBreak(line) == \E p \in SceneBreakPrefixes : StartsWith(line, p)

\* line.isupper() and len(line.split()) <= 3 and line
IsCharacterCue(line) ==
    IsUpper(line) /\ Len(SplitWords(line)) <= MaxCueWords /\ line # <<>>

\* variant: "=" written for "+="
AppendLine_Assign(chunk, line) == line \o NL

\* current_chunk += line + "\n"
AppendLine(chunk, line) == chunk \o line \o NL

\* variant: the count starts at 1
ChunkLoopInit_FromOne ==
    [chunks |-> <<>>, current_scene |-> <<>>, current_chunk |-> <<>>,
     current_characters |-> {}, scene_count |-> 1]

\* the locals of the loop before its first iteration
ChunkLoopInit ==
    [chunks |-> <<>>, current_scene |-> <<>>, current_chunk |-> <<>>,
     current_characters |-> {}, scene_count |-> 0]

\* chunks.append({...}) guarded by current_chunk.strip()
FlushChunk(st) ==
    IF Strip(st.current_chunk) # <<>>
    THEN { Append(st.chunks,
                  [content |-> Strip(st.current_chunk),
                   scene_header |-> st.current_scene,
                   characters |-> cs,
                   scene_number |-> st.scene_count,
                   chunk_type |-> "scene"]) : cs \in ListOfSet(st.current_characters) }
    ELSE { st.chunks }

\* one iteration of the loop over lines
ChunkLine(st, raw) ==
    LET line == Strip(raw) IN
    IF IsSceneBreak(line)
    THEN { [chunks |-> c, current_scene |-> line, current_chunk |-> line \o NL,
            current_characters |-> {}, scene_count |-> st.scene_count + 1]
           : c \in FlushChunk(st) }
    ELSE IF IsCharacterCue(line)
    THEN { [st EXCEPT !.current_characters = @ \cup {line},
                      !.current_chunk = AppendLine(@, line)] }
    ELSE { [st EXCEPT !.current_chunk = AppendLine(@, line)] }

RECURSIVE ChunkLoop(_, _, _)
ChunkLoop(lines, i, S) ==
    IF i > Len(lines) THEN S
    ELSE ChunkLoop(lines, i + 1, UNION {ChunkLine(st, lines[i]) : st \in S})

\* every list of chunks the call can return for the text
chunk_screenplay(text) ==
    UNION {FlushChunk(st) : st \in ChunkLoop(Split(text, "\n"), 1, {ChunkLoopInit})}

----------------------------------------------------------------------------
(* FilmRAGCore.extract_entities *)

\* str.replace(old, ""): every occurrence of old, left to right, is removed
RECURSIVE Remove(_, _)
Remove(s, old) ==
    IF Len(s) < Len(old) THEN s
    ELSE IF StartsWith(s, old) THEN Remove(SubSeq(s, Len(old) + 1, Len(s)), old)
    ELSE <<Head(s)>> \o Remove(Tail(s), old)

\* scene_header.replace("INT.", "").replace("EXT.", "").split("-")[0].strip()
LocationOf(scene_header) ==
    Strip(Split(Remove(Remove(scene_header, <<"I","N","T",".">>), <<"E","X","T",".">>),
                "-")[1])

\* variant: the scene is recorded only when the character is first seen
AddCharacterMention_FirstScene(chars, character, scene_number) ==
    IF character \in DOMAIN chars
    THEN [chars EXCEPT ![character].mentions = @ + 1]
    ELSE chars @@ (character :> [mentions |-> 1, scenes |-> <<scene_number>>])

\* the body of "for character in chunk['characters']"
AddCharacterMention(chars, character, scene_number) ==
    LET cur == IF character \in DOMAIN chars
               THEN chars
               ELSE chars @@ (character :> [mentions |-> 0, scenes |-> <<>>])
    IN [cur EXCEPT ![character] =
            [mentions |-> @.mentions + 1, scenes |-> Append(@.scenes, scene_number)]]

RECURSIVE AddCharacters(_, _, _)
AddCharacters(chars, list, scene_number) ==
    IF list = <<>> THEN chars
    ELSE AddCharacters(AddCharacterMention(chars, Head(list), scene_number),
                       Tail(list), scene_number)

\* variant: a location seen again gets the scene appended, as a character does
AddLocation_Append(locs, chunk) ==
    IF chunk.scene_header # <<>>
    THEN LET location == LocationOf(chunk.scene_header) IN
         IF location = <<>> THEN locs
         ELSE IF location \notin DOMAIN locs
         THEN locs @@ (location :> [type |-> "location", scenes |-> <<chunk.scene_number>>])
         ELSE [locs EXCEPT ![location].scenes = Append(@, chunk.scene_number)]
    ELSE locs

\* the location part of the loop body
AddLocation(locs, chunk) ==
    IF chunk.scene_header # <<>>
    THEN LET location == LocationOf(chunk.scene_header) IN
         IF location # <<>> /\ location \notin DOMAIN locs
         THEN locs @@ (location :> [type |-> "location", scenes |-> <<chunk.scene_number>>])
         ELSE locs
    ELSE locs

EmptyDict == [k \in {} |-> None]

RECURSIVE ExtractLoop(_, _)
ExtractLoop(cs, ents) ==
    IF cs = <<>> THEN ents
    ELSE ExtractLoop(Tail(cs),
            [characters |-> AddCharacters(ents.characters, Head(cs).characters,
                                          Head(cs).scene_number),
             locations |-> AddLocation(ents.locations, Head(cs))])

extract_entities(cs) ==
    ExtractLoop(cs, [characters |-> EmptyDict, locations |-> EmptyDict])

----------------------------------------------------------------------------
(* ScreenplayParser.parse_screenplay *)

\* ['FADE', 'CUT', 'INT.', 'EXT.', 'THE END']
ParserKeywords ==
    { <<"F","A","D","E">>, <<"C","U","T">>, <<"I","N","T",".">>, <<"E","X","T",".">>,
      <<"T","H","E"," ","E","N","D">> }

\* line.startswith(('INT.', 'EXT.'))
IsSceneHeading(line) ==
    StartsWith(line, <<"I","N","T",".">>) \/ StartsWith(line, <<"E","X","T",".">>)

\* line.isupper() and len(line.split()) <= 3 and len(line) > 1
IsParserCue(line) ==
    IsUpper(line) /\ Len(SplitWords(line)) <= MaxCueWords /\ Len(line) > 1

\* line.split('(')[0].strip()
CharNameOf(line) == Strip(Split(line, "(")[1])

\* one iteration of the loop; st = [characters, scenes]
ParseLine(st, raw) ==
    LET line == Strip(raw) IN
    IF line = <<>> THEN st
    ELSE IF IsSceneHeading(line) THEN [st EXCEPT !.scenes = Append(@, line)]
    ELSE IF IsParserCue(line)
            /\ ~ \E word \in ParserKeywords : Contains(line, word)
            /\ CharNameOf(line) # <<>>
         THEN [st EXCEPT !.characters = @ \cup {CharNameOf(line)}]
    ELSE st

RECURSIVE ParseLoop(_, _, _)
ParseLoop(lines, i, st) ==
    IF i > Len(lines) THEN st ELSE ParseLoop(lines, i + 1, ParseLine(st, lines[i]))

\* every dict the call can return for the text
parse_screenplay(text) ==
    LET lines == Split(Strip(text), "\n")
        st == ParseLoop(lines, 1, [characters |-> {}, scenes |-> <<>>])
    IN { [characters |-> cs, scenes |-> st.scenes, total_lines |-> Len(lines)]
         : cs \in ListOfSet(st.characters) }

----------------------------------------------------------------------------
(* FilmUploadSystem.process_screenplay *)

\* characters_found keeps this many names
MaxCharactersFound == 10

\* preview keeps this many characters
PreviewLen == 200

\* one iteration of the loop; st = [characters, scenes]
ProcessLine(st, raw) ==
    LET line == Strip(raw) IN
    IF IsSceneHeading(line) THEN [st EXCEPT !.scenes = @ + 1]
    ELSE IF IsUpper(line) /\ Len(SplitWords(line)) <= MaxCueWords /\ line # <<>>
         THEN [st EXCEPT !.characters = @ \cup {line}]
    ELSE st

RECURSIVE ProcessLoop(_, _, _)
ProcessLoop(lines, i, st) ==
    IF i > Len(lines) THEN st ELSE ProcessLoop(lines, i + 1, ProcessLine(st, lines[i]))

\* every dict the analysis of a text that was read can return
process_screenplay(text) ==
    LET st == ProcessLoop(Split(text, "\n"), 1, [characters |-> {}, scenes |-> 0])
    IN { [content_length |-> Len(text),
          characters_found |-> Take(cs, MaxCharactersFound),
          scenes_count |-> st.scenes,
          preview |-> IF Len(text) > PreviewLen
                      THEN SubSeq(text, 1, PreviewLen) \o <<".", ".", ".">>
                      ELSE text]
         : cs \in ListOfSet(st.characters) }

\* the dict returned when reading the file raises
ProcessScreenplayError == [error |-> "Screenplay processing failed"]

----------------------------------------------------------------------------
(* FilmRAGCore: the knowledge store and its file *)

\* how an operation ended; NoCall before the first operation
NoCall == [op |-> "none", outcome |-> "none", value |-> None]
Returned(op, value) == [op |-> op, outcome |-> "returned", value |-> value]
Raised(op, exception) == [op |-> op, outcome |-> "raised", value |-> exception]

\* no text is being tokenized
TextOff ==
    /\ content = <<>>
    /\ pc = "off"
    /\ chunks = <<>>
    /\ entities = None
    /\ parsed = None
    /\ processed = None

\* dict.get(k, default)
DictGet(d, k, default) == IF k \in DOMAIN d THEN d[k] ELSE default

\* variant: the dict is replaced by one that holds the new item only
DictPut_Only(d, k, v) == [x \in {k} |-> v]

\* d[k] = v
DictPut(d, k, v) == [x \in DOMAIN d \cup {k} |-> IF x = k THEN v ELSE d[x]]

\* self.knowledge_store as __init__ leaves it
EmptyStore == [screenplays |-> EmptyDict, mood_boards |-> EmptyDict, relationships |-> <<>>]

\* knowledge_store.json does not exist
NoFile == [state |-> "absent"]

\* the file after a write that raised part-way: not a whole JSON document
TruncatedFile == [state |-> "truncated"]

\* the keys of the records of a store or of a JSON document
KeysOf(store) ==
    {<<"screenplays", t>> : t \in DOMAIN store.screenplays}
        \cup {<<"mood_boards", p>> : p \in DOMAIN store.mood_boards}

\* the keys of the records the file holds; none when it is absent or cut short
FileKeys(file) == IF file.state = "complete" THEN KeysOf(file.doc) ELSE {}

\* a process that starts over the file: nothing added, nothing loaded
NewSession(file) ==
    [inherited |-> FileKeys(file), added |-> {}, loaded |-> FALSE, replaced |-> FALSE]

StoreInit ==
    /\ knowledge_store = EmptyStore
    /\ store_file = NoFile
    /\ session = NewSession(NoFile)

\* a FilmChatSystem as FilmCreativeRAGUI.__init__ builds it, before any message
\* the handlers that may call chat(), and an invocation not started yet
Handlers == {"handler 1", "handler 2"}
TaskIdle == [pc |-> "idle", message |-> "", user_at |-> 0, assistant_at |-> 0]

\* no handler has called chat(), the event loop is free
TasksIdle ==
    /\ tasks = [h \in Handlers |-> TaskIdle]
    /\ running = "none"

ChatInit ==
    /\ rag_engine = TRUE
    /\ chat_history = <<>>
    /\ TasksIdle

\* an empty upload directory
\* upload_file has not called process_upload
NoUpload == [made |-> FALSE, outcome |-> "none", value |-> None]

\* self.current_project = None, and a name held in it
NoProject == [is_none |-> TRUE, name |-> <<>>]
Project(name) == [is_none |-> FALSE, name |-> name]

UploadInit ==
    /\ uploads = [dirs |-> {}, files |-> EmptyDict]
    /\ upload_log = {}
    /\ current_project = NoProject
    /\ ui_upload = NoUpload

\* a MoodBoardExtractor as __init__ leaves it, over an empty output directory
PdfInit ==
    /\ extracted_data = [images |-> <<>>, text_annotations |-> <<>>, metadata |-> EmptyDict]
    /\ pdf_disk = [dirs |-> {}, files |-> EmptyDict]

\* no image is loaded
ImageOff == image = <<>>


\* the configuration load_config returns when there is no file
DefaultConfig ==
    [ollama |-> [url |-> "http://localhost:11434", default_model |-> "llama3.2:3b",
                 fallback_model |-> "llama3.2:1b", timeout |-> 60, max_tokens |-> 512,
                 temperature |-> "0.7"]]

\* there is no configs/ollama_config.json
NoConfigFile == [state |-> "missing", value |-> EmptyDict]

\* self.config = self.load_config() with no ollama_config.json
ConfigInit ==
    /\ config = DefaultConfig
    /\ config_file = NoConfigFile

\* run_setup has not run a step yet
SetupStart ==
    [run |-> 1, pc |-> "check_python_deps", steps |-> <<>>, service_started |-> FALSE,
     model_ready |-> {}, tested |-> FALSE, written |-> {}, files |-> {},
     returned |-> "none"]

\* start_ollama_service has not sent a request yet
ServiceStart ==
    [pc |-> "status", requests |-> 0, popen |-> 0, polls |-> 0, sleeps |-> 0,
     answered |-> FALSE, returned |-> "none"]

SetupInit ==
    /\ setup = SetupStart
    /\ service = ServiceStart

\* no operation has run
OpInit ==
    /\ last = NoCall
    /\ fault = "none"
    /\ http_log = <<>>
    /\ nops = 0

\* the titles and project names the additions are keyed by
Titles == {"Script A", "Script B"}
Projects == {"Board A", "Board B"}

\* screenplay texts added to the store
StoreTexts == { JoinLines(<<LineInt, LineAlice, LineProse>>),
                JoinLines(<<LineAlice, LineExt, LineAlice>>) }

\* visual_data dicts: a full one, and one holding a value json cannot encode
VisualFull == [images_found |-> 2, color_palettes |-> <<"#ff0000">>, style_elements |-> <<>>]
VisualRaw == [images_found |-> 1, raw_image |-> "ndarray"]
VisualData == {VisualFull, VisualRaw}

\* json.dump accepts every value of the dict
JsonEncodable(visual_data) == "raw_image" \notin DOMAIN visual_data

StoreEncodable(store) ==
    \A p \in DOMAIN store.mood_boards : JsonEncodable(store.mood_boards[p].visual_data)

\* the JSON document json.dump(self.knowledge_store, f) writes
JsonDocument(store) ==
    [state |-> "complete",
     doc |-> [screenplays |-> store.screenplays,
              mood_boards |-> store.mood_boards,
              relationships |-> store.relationships]]

\* how the file system answers a save
IoOutcomes == {"ok", "open_fails", "write_fails"}

\* variant: an existing file is left as it is
SaveKnowledgeStore_KeepExisting(store, file, io) ==
    IF io = "open_fails" THEN [file |-> file, raised |-> "OSError"]
    ELSE IF file # NoFile THEN [file |-> file, raised |-> None]
    ELSE IF io = "write_fails" THEN [file |-> TruncatedFile, raised |-> "OSError"]
    ELSE IF ~ StoreEncodable(store) THEN [file |-> TruncatedFile, raised |-> "TypeError"]
    ELSE [file |-> JsonDocument(store), raised |-> None]

\* save_knowledge_store: open(store_file, 'w') truncates, json.dump writes
SaveKnowledgeStore(store, file, io) ==
    IF io = "open_fails" THEN [file |-> file, raised |-> "OSError"]
    ELSE IF io = "write_fails" THEN [file |-> TruncatedFile, raised |-> "OSError"]
    ELSE IF ~ StoreEncodable(store) THEN [file |-> TruncatedFile, raised |-> "TypeError"]
    ELSE [file |-> JsonDocument(store), raised |-> None]

\* a record whose metadata counts one location per chunk
ScreenplayRecord_PerChunk(text, cs) ==
    LET ents == extract_entities(cs) IN
    [content |-> text,
     chunks |-> cs,
     entities |-> ents,
     metadata |-> [total_chunks |-> Len(cs),
                   total_characters |-> Cardinality(DOMAIN ents.characters),
                   total_locations |-> Len(cs)]]

\* the record add_screenplay stores under the title
ScreenplayRecord(text, cs) ==
    LET ents == extract_entities(cs) IN
    [content |-> text,
     chunks |-> cs,
     entities |-> ents,
     metadata |-> [total_chunks |-> Len(cs),
                   total_characters |-> Cardinality(DOMAIN ents.characters),
                   total_locations |-> Cardinality(DOMAIN ents.locations)]]

\* the record add_mood_board stores under the project name
MoodBoardRecord(visual_data) ==
    [visual_data |-> visual_data,
     metadata |-> [images_count |-> DictGet(visual_data, "images_found", 0),
                   color_palettes |-> Len(DictGet(visual_data, "color_palettes", <<>>)),
                   style_elements |-> Len(DictGet(visual_data, "style_elements", <<>>))]]

\* await rag.add_screenplay(text, title)
AddScreenplay ==
    \E text \in StoreTexts, title \in Titles, io \in IoOutcomes :
    \E cs \in chunk_screenplay(text) :
        LET store == [knowledge_store EXCEPT
                        !.screenplays = DictPut(@, title, ScreenplayRecord(text, cs))]
            saved == SaveKnowledgeStore(store, store_file, io)
        IN /\ knowledge_store' = store
           /\ store_file' = saved.file
           /\ session' = [session EXCEPT
                             !.added = @ \cup {<<"screenplays", title>>},
                             !.replaced = title \in DOMAIN knowledge_store.screenplays]
           /\ last' = IF saved.raised = None
                      THEN Returned("add_screenplay", store.screenplays[title].metadata)
                      ELSE Raised("add_screenplay", saved.raised)
           /\ fault' = IF io # "ok" THEN io
                       ELSE IF ~ StoreEncodable(store) THEN "not_encodable" ELSE "none"
           /\ http_log' = <<>>
           /\ UNCHANGED <<textVars, chatVars, uploadVars, pdfVars, imageVars, setupVars>>

\* await rag.add_mood_board(visual_data, project_name)
AddMoodBoard ==
    \E visual_data \in VisualData, project_name \in Projects, io \in IoOutcomes :
        LET store == [knowledge_store EXCEPT
                        !.mood_boards = DictPut(@, project_name, MoodBoardRecord(visual_data))]
            saved == SaveKnowledgeStore(store, store_file, io)
        IN /\ knowledge_store' = store
           /\ store_file' = saved.file
           /\ session' = [session EXCEPT
                             !.added = @ \cup {<<"mood_boards", project_name>>},
                             !.replaced = project_name \in DOMAIN knowledge_store.mood_boards]
           /\ last' = IF saved.raised = None
                      THEN Returned("add_mood_board", store.mood_boards[project_name].metadata)
                      ELSE Raised("add_mood_board", saved.raised)
           /\ fault' = IF io # "ok" THEN io
                       ELSE IF ~ StoreEncodable(store) THEN "not_encodable" ELSE "none"
           /\ http_log' = <<>>
           /\ UNCHANGED <<textVars, chatVars, uploadVars, pdfVars, imageVars, setupVars>>

InitStore == TextOff /\ StoreInit /\ ChatInit /\ UploadInit /\ PdfInit /\ SetupInit /\ ConfigInit /\ ImageOff /\ OpInit

NextStore ==
    \/ AddScreenplay /\ UNCHANGED nops
    \/ AddMoodBoard /\ UNCHANGED nops

SpecStore == InitStore /\ [][NextStore]_vars

----------------------------------------------------------------------------
(* The local LLM server, as the HTTP client sees it *)

\* most requests one operation is answered
MaxRequests == 2

\* a reply: status 0 stands for requests raising (no connection, timeout);
\* valid tells whether response.json() decodes; fields is the decoded object
NoReply == [status |-> 0, valid |-> FALSE, fields |-> EmptyDict]

Replies ==
    { NoReply,
      [status |-> 500, valid |-> FALSE, fields |-> EmptyDict],
      [status |-> 200, valid |-> FALSE, fields |-> EmptyDict],
      [status |-> 200, valid |-> TRUE, fields |-> ("response" :> "Answer")],
      [status |-> 200, valid |-> TRUE, fields |-> ("done" :> "true")] }

\* the replies the server gives to the successive requests of one operation
Scripts == [1..MaxRequests -> Replies]

\* the scripts that differ in their first n replies only
ScriptsOf(n) == {script \in Scripts : \A i \in DOMAIN script : i > n => script[i] = NoReply}

\* the reply to the i-th request; none once the script is used up
ReplyAt(script, i) == IF i \in DOMAIN script THEN script[i] ELSE NoReply

\* str(response.status_code)
StatusText(status) ==
    CASE status = 200 -> "200" [] status = 500 -> "500" [] OTHER -> "0"

\* requests.post(f"{url}/api/generate", json=payload, timeout=...)
GenerateRequest(model, prompt, options, timeout) ==
    [method |-> "POST", path |-> "/api/generate", model |-> model, prompt |-> prompt,
     stream |-> FALSE, options |-> options, timeout |-> timeout]

\* one exchange of the log
Exchange(request, reply) == [request |-> request, reply |-> reply]

\* the options query and generate_response send
FixedOptions == [temperature |-> "0.7", max_tokens |-> 512]

----------------------------------------------------------------------------
(* FilmRAGCore.query *)

\* build_context_for_query keeps this many character names per screenplay
MaxContextCharacters == 5

\* a store whose records lack the keys build_context_for_query reads, as
\* load_knowledge_store leaves it after reading a file other code wrote
MalformedStore ==
    [screenplays |-> ("Script A" :> [content |-> <<>>]),
     mood_boards |-> EmptyDict, relationships |-> <<>>]

\* a store after one add_screenplay and one add_mood_board
PopulatedStore ==
    LET text == JoinLines(<<LineInt, LineAlice, LineProse>>) IN
    [screenplays |-> ("Script A" :>
                        ScreenplayRecord(text, CHOOSE cs \in chunk_screenplay(text) : TRUE)),
     mood_boards |-> ("Board A" :> MoodBoardRecord(VisualFull)),
     relationships |-> <<>>]

\* the keys of entities['characters'] in insertion order: the characters of
\* the chunks in order of first appearance
RECURSIVE KeysInOrder(_, _)
KeysInOrder(cs, acc) ==
    IF cs = <<>> THEN acc
    ELSE KeysInOrder(Tail(cs),
            acc \o SelectSeq(Head(cs).characters, LAMBDA c : c \notin Range(acc)))

\* build_context_for_query: the context lines per record, or the KeyError
\* raised by a record without the keys read
BuildContext(store) ==
    IF \/ \E t \in DOMAIN store.screenplays :
             {"entities", "chunks"} \ DOMAIN store.screenplays[t] # {}
       \/ \E n \in DOMAIN store.mood_boards :
             "metadata" \notin DOMAIN store.mood_boards[n]
    THEN [raised |-> "KeyError", parts |-> {}]
    ELSE [raised |-> None,
          parts |->
            { [kind |-> "Screenplay", name |-> t,
               characters |-> Take(KeysInOrder(store.screenplays[t].chunks, <<>>),
                                   MaxContextCharacters),
               count |-> Len(store.screenplays[t].chunks)]
              : t \in DOMAIN store.screenplays }
            \cup
            { [kind |-> "Mood Board", name |-> n, characters |-> <<>>,
               count |-> store.mood_boards[n].metadata.images_count]
              : n \in DOMAIN store.mood_boards }]

\* f"Query error: {str(e)}"
QueryError(e) == <<"Query error: ", e>>

\* variant: a request that failed is sent once more
QueryTry_Retry(store, question, script) ==
    LET ctx == BuildContext(store)
        request == GenerateRequest("llama3.2:3b",
                       [template |-> "query", context |-> ctx.parts, question |-> question],
                       FixedOptions, 30)
        first == ReplyAt(script, 1)
        reply == IF first.status = 200 THEN first ELSE ReplyAt(script, 2)
        log == IF first.status = 200
               THEN <<Exchange(request, first)>>
               ELSE <<Exchange(request, first), Exchange(request, reply)>>
    IN IF ctx.raised # None
       THEN [raised |-> ctx.raised, value |-> <<>>, log |-> <<>>]
       ELSE IF reply.status = 0
       THEN [raised |-> "ConnectionError", value |-> <<>>, log |-> log]
       ELSE IF reply.status = 200
       THEN IF reply.valid
            THEN [raised |-> None,
                  value |-> <<DictGet(reply.fields, "response", "No response generated")>>,
                  log |-> log]
            ELSE [raised |-> "JSONDecodeError", value |-> <<>>, log |-> log]
       ELSE [raised |-> None,
             value |-> <<"Error querying LLM: ", StatusText(reply.status)>>,
             log |-> log]

\* the try block of query: what it returns, or the exception it raises, and
\* the exchanges made
QueryTry(store, question, script) ==
    LET ctx == BuildContext(store)
        request == GenerateRequest("llama3.2:3b",
                       [template |-> "query", context |-> ctx.parts, question |-> question],
                       FixedOptions, 30)
        reply == ReplyAt(script, 1)
    IN IF ctx.raised # None
       THEN [raised |-> ctx.raised, value |-> <<>>, log |-> <<>>]
       ELSE IF reply.status = 0
       THEN [raised |-> "ConnectionError", value |-> <<>>,
             log |-> <<Exchange(request, reply)>>]
       ELSE IF reply.status = 200
       THEN IF reply.valid
            THEN [raised |-> None,
                  value |-> <<DictGet(reply.fields, "response", "No response generated")>>,
                  log |-> <<Exchange(request, reply)>>]
            ELSE [raised |-> "JSONDecodeError", value |-> <<>>,
                  log |-> <<Exchange(request, reply)>>]
       ELSE [raised |-> None,
             value |-> <<"Error querying LLM: ", StatusText(reply.status)>>,
             log |-> <<Exchange(request, reply)>>]

\* variant: only the exceptions of requests are caught
QueryExcept_RequestsOnly(r) ==
    IF r.raised = None THEN [outcome |-> "returned", value |-> r.value, log |-> r.log]
    ELSE IF r.raised = "ConnectionError"
    THEN [outcome |-> "returned", value |-> QueryError(r.raised), log |-> r.log]
    ELSE [outcome |-> "raised", value |-> r.raised, log |-> r.log]

\* except Exception as e: return f"Query error: {str(e)}"
QueryExcept(r) ==
    IF r.raised = None THEN [outcome |-> "returned", value |-> r.value, log |-> r.log]
    ELSE [outcome |-> "returned", value |-> QueryError(r.raised), log |-> r.log]

\* query(question): how the call ends and what it exchanged
QueryCall(store, question, script) == QueryExcept(QueryTry(store, question, script))

\* the questions and chat messages
Messages == {"Who are the main characters?"}

\* await rag.query(question)
Query ==
    \E question \in Messages, script \in Scripts :
        LET r == QueryCall(knowledge_store, question, script) IN
        /\ http_log' = r.log
        /\ last' = [op |-> "query", outcome |-> r.outcome, value |-> r.value]
        /\ fault' = IF BuildContext(knowledge_store).raised # None
                    THEN "malformed_store" ELSE "none"
        /\ UNCHANGED <<textVars, storeVars, chatVars, uploadVars, pdfVars, imageVars, setupVars>>

----------------------------------------------------------------------------
(* FilmChatSystem.generate_response and chat *)

\* the text of a Python string is empty
IsEmptyText(t) == t = <<>> \/ t = <<"">>

\* the try block of generate_response
GenerateTry(attached, store, message, script) ==
    LET rag == IF attached
               THEN QueryCall(store, message, script)
               ELSE [outcome |-> "returned", value |-> <<>>, log |-> <<>>]
        rag_context == rag.value
        request == GenerateRequest("llama3.2:3b",
                       [template |-> "chat",
                        context |-> IF IsEmptyText(rag_context) THEN <<>> ELSE rag_context,
                        question |-> message],
                       FixedOptions, 30)
        reply == ReplyAt(script, Len(rag.log) + 1)
        log == Append(rag.log, Exchange(request, reply))
    IN IF rag.outcome = "raised"
       THEN [raised |-> rag.value, value |-> EmptyDict, log |-> rag.log]
       ELSE IF reply.status = 0
       THEN [raised |-> "ConnectionError", value |-> EmptyDict, log |-> log]
       ELSE IF reply.status = 200
       THEN IF reply.valid
            THEN [raised |-> None,
                  value |-> [content |-> DictGet(reply.fields, "response", "No response"),
                             status |-> "success",
                             has_rag_context |-> ~ IsEmptyText(rag_context)],
                  log |-> log]
            ELSE [raised |-> "JSONDecodeError", value |-> EmptyDict, log |-> log]
       ELSE [raised |-> None,
             value |-> [content |-> "I'm having trouble responding right now.",
                        status |-> "error",
                        error |-> <<"LLM error: ", StatusText(reply.status)>>],
             log |-> log]

\* variant: only the exceptions of requests are answered with the canned reply
GenerateExcept_RequestsOnly(r) ==
    IF r.raised = None THEN [outcome |-> "returned", value |-> r.value, log |-> r.log]
    ELSE IF r.raised = "ConnectionError"
    THEN [outcome |-> "returned",
          value |-> [content |-> "I'm experiencing technical difficulties.",
                     status |-> "error",
                     error |-> <<r.raised>>],
          log |-> r.log]
    ELSE [outcome |-> "raised", value |-> r.raised, log |-> r.log]

\* except Exception as e: the canned reply
GenerateExcept(r) ==
    IF r.raised = None THEN [outcome |-> "returned", value |-> r.value, log |-> r.log]
    ELSE [outcome |-> "returned",
          value |-> [content |-> "I'm experiencing technical difficulties.",
                     status |-> "error",
                     error |-> <<r.raised>>],
          log |-> r.log]

\* generate_response(message)
GenerateResponse(attached, store, message, script) ==
    GenerateExcept(GenerateTry(attached, store, message, script))

\* longest chat history, in entries
MaxHistory == 4

UserEntry(message) == [role |-> "user", message |-> message]
AssistantEntry(message) == [role |-> "assistant", message |-> message]

\* variant: the reply is entered before the message it answers
ChatEntries_ReplyFirst(message, r) ==
    IF r.outcome = "returned"
    THEN <<AssistantEntry(r.value.content), UserEntry(message)>>
    ELSE <<UserEntry(message)>>

\* the entries one chat() call appends: the second append is not reached
\* when generate_response raises
ChatEntries(message, r) ==
    IF r.outcome = "returned"
    THEN <<UserEntry(message), AssistantEntry(r.value.content)>>
    ELSE <<UserEntry(message)>>

\* await chat_system.chat(message)
Chat ==
    /\ Len(chat_history) + 2 <= MaxHistory
    /\ \E message \in Messages, script \in Scripts :
        LET r == GenerateResponse(rag_engine, knowledge_store, message, script) IN
        /\ chat_history' = chat_history \o ChatEntries(message, r)
        /\ http_log' = r.log
        /\ last' = [op |-> "chat", outcome |-> r.outcome, value |-> r.value]
        /\ fault' = "none"
        /\ UNCHANGED <<textVars, storeVars, rag_engine, tasks, running, uploadVars, pdfVars, imageVars, setupVars>>

\* chat_system.clear_history()
ClearHistory ==
    /\ chat_history' = <<>>
    /\ http_log' = <<>>
    /\ last' = Returned("clear_history", None)
    /\ fault' = "none"
    /\ UNCHANGED <<textVars, storeVars, rag_engine, tasks, running, uploadVars, pdfVars, imageVars, setupVars>>

----------------------------------------------------------------------------
(* FilmCreativeRAGDemo.analyze_screenplay *)

\* the error glyph (the cross mark) and the warning glyph user-facing texts open with
ErrorGlyph == "(x)"
WarningGlyph == "(!)"

\* replies to GET /api/tags: status 0 stands for requests raising
TagReplies ==
    { [status |-> 0, valid |-> FALSE, models |-> <<>>],
      [status |-> 500, valid |-> FALSE, models |-> <<>>],
      [status |-> 200, valid |-> FALSE, models |-> <<>>],
      [status |-> 200, valid |-> TRUE, models |-> <<>>],
      [status |-> 200, valid |-> TRUE, models |-> <<"mistral:7b">>],
      [status |-> 200, valid |-> TRUE, models |-> <<"llama3.2:1b", "llama3.2:3b">>] }

TagsRequest == [method |-> "GET", path |-> "/api/tags", timeout |-> 5]

\* ["llama3.2:3b", "llama3.2:1b"]
PreferredModels == <<"llama3.2:3b", "llama3.2:1b">>

\* check_system_status: (ready, working_model, available_models), or the
\* exception it lets through. Only requests.RequestException is caught; whether
\* the decoding error of response.json() is one depends on the requests release
CheckSystemStatus(tags, decode_error_is_request_exception) ==
    IF tags.status = 0 THEN [raised |-> None, ready |-> FALSE, model |-> None, available |-> <<>>]
    ELSE IF tags.status # 200
    THEN [raised |-> None, ready |-> FALSE, model |-> None, available |-> <<>>]
    ELSE IF ~ tags.valid
    THEN IF decode_error_is_request_exception
         THEN [raised |-> None, ready |-> FALSE, model |-> None, available |-> <<>>]
         ELSE [raised |-> "ValueError", ready |-> FALSE, model |-> None, available |-> <<>>]
    ELSE LET found == SelectSeq(PreferredModels, LAMBDA m : m \in Range(tags.models)) IN
         IF found # <<>>
         THEN [raised |-> None, ready |-> TRUE, model |-> Head(found), available |-> tags.models]
         ELSE [raised |-> None, ready |-> FALSE, model |-> None, available |-> tags.models]

\* self.config["ollama"][...] raises KeyError: a key the payload or the
\* timeout reads is not in the config
OptionsKeyError(cfg) ==
    \/ "ollama" \notin DOMAIN cfg
    \/ ~ ({"temperature", "max_tokens", "timeout"} \subseteq DOMAIN cfg.ollama)

\* the try block of analyze_screenplay and its two except clauses
AnalyzeTry(cfg, text, title, model, script, decode_error_is_request_exception) ==
    LET request == GenerateRequest(model,
                       [template |-> "analysis", context |-> title, question |-> text],
                       [temperature |-> cfg.ollama.temperature,
                        max_tokens |-> cfg.ollama.max_tokens],
                       cfg.ollama.timeout)
        reply == ReplyAt(script, 1)
        log == <<Exchange(request, reply)>>
    IN IF OptionsKeyError(cfg)
       THEN [value |-> <<ErrorGlyph, "**Unexpected Error**">>, log |-> <<>>]
       ELSE IF reply.status = 0
          THEN [value |-> <<ErrorGlyph, "**Connection Error**">>, log |-> log]
          ELSE IF reply.status = 200
          THEN IF reply.valid
               THEN [value |-> <<"# Screenplay Analysis Complete", title,
                                 DictGet(reply.fields, "response", "No analysis received"),
                                 model>>,
                     log |-> log]
               ELSE IF decode_error_is_request_exception
               THEN [value |-> <<ErrorGlyph, "**Connection Error**">>, log |-> log]
               ELSE [value |-> <<ErrorGlyph, "**Unexpected Error**">>, log |-> log]
          ELSE [value |-> <<ErrorGlyph, "**Analysis Failed**", StatusText(reply.status)>>,
                log |-> log]

\* analyze_screenplay(screenplay_text, title)
AnalyzeCall(cfg, text, title, tags, script, decode_error_is_request_exception) ==
    IF Strip(text) = <<>>
    THEN [outcome |-> "returned",
          value |-> <<WarningGlyph, "Please enter screenplay content to analyze.">>,
          log |-> <<>>]
    ELSE LET st == CheckSystemStatus(tags, decode_error_is_request_exception)
             got == <<Exchange(TagsRequest, tags)>>
         IN IF st.raised # None
            THEN [outcome |-> "raised", value |-> st.raised, log |-> got]
            ELSE IF ~ st.ready
            THEN [outcome |-> "returned",
                  value |-> IF st.available = <<>>
                            THEN <<ErrorGlyph, "**System Not Ready**">>
                            ELSE <<ErrorGlyph, "**Model Not Available**">>,
                  log |-> got]
            ELSE LET r == AnalyzeTry(cfg, text, title, st.model, script,
                                     decode_error_is_request_exception)
                 IN [outcome |-> "returned", value |-> r.value, log |-> got \o r.log]

\* the texts handed to the demo's analysis
DemoTexts == { <<" ">>, JoinLines(<<LineInt, LineAlice, LineProse>>) }

\* demo.analyze_screenplay(text, title)
AnalyzeScreenplay ==
    \E text \in DemoTexts, tags \in TagReplies, script \in ScriptsOf(1), d \in BOOLEAN :
        LET r == AnalyzeCall(config, text, "Untitled Screenplay", tags, script, d) IN
        /\ http_log' = r.log
        /\ last' = [op |-> "analyze_screenplay", outcome |-> r.outcome, value |-> r.value]
        /\ fault' = "none"
        /\ UNCHANGED <<textVars, storeVars, chatVars, uploadVars, pdfVars, imageVars, setupVars>>

\* the file create_config_files of the setup script writes
SetupConfig ==
    [ollama |-> DefaultConfig.ollama,
     screenplay_analysis |-> [enabled |-> TRUE,
                              prompt_template |-> "screenplay_analysis.txt",
                              max_length |-> 5000],
     performance |-> [gpu_acceleration |-> TRUE, batch_processing |-> FALSE,
                      concurrent_requests |-> 1]]

\* ollama_config.json: missing, unreadable, cut short, as the setup script
\* wrote it, an empty object, and one that names the url only
ConfigFiles ==
    { NoConfigFile,
      [state |-> "unreadable", value |-> EmptyDict],
      [state |-> "not_json", value |-> EmptyDict],
      [state |-> "json", value |-> SetupConfig],
      [state |-> "json", value |-> EmptyDict],
      [state |-> "json", value |-> [ollama |-> [url |-> "http://localhost:11434"]]] }

\* load_config(): what json.load gives when the file is there and parses,
\* the defaults after the bare except and when there is no file
load_config(file) ==
    IF file.state = "json" THEN file.value ELSE DefaultConfig

\* FilmCreativeRAGDemo(): self.config = self.load_config()
LoadConfig ==
    \E file \in ConfigFiles :
        /\ config_file' = file
        /\ config' = load_config(file)
        /\ last' = Returned("load_config", None)
        /\ fault' = IF file.state \in {"unreadable", "not_json"} THEN file.state ELSE "none"
        /\ http_log' = <<>>
        /\ UNCHANGED <<setup, service, textVars, storeVars, chatVars, uploadVars, pdfVars, imageVars>>

\* most operations of one demo session
MaxDemoOps == 3

TickDemo ==
    /\ nops < MaxDemoOps
    /\ nops' = nops + 1

InitDemo == InitStore

NextDemo ==
    \/ TickDemo /\ LoadConfig
    \/ TickDemo /\ AnalyzeScreenplay

SpecDemo == InitDemo /\ [][NextDemo]_vars

\* a chat system with or without a RAG engine, over a store that is empty,
\* populated or malformed
InitLLM ==
    /\ TextOff
    /\ knowledge_store \in {EmptyStore, PopulatedStore, MalformedStore}
    /\ store_file = NoFile
    /\ session = [inherited |-> {}, added |-> KeysOf(knowledge_store) \ KeysOf(MalformedStore),
                  loaded |-> knowledge_store = MalformedStore, replaced |-> FALSE]
    /\ rag_engine \in BOOLEAN
    /\ chat_history = <<>>
    /\ TasksIdle
    /\ UploadInit /\ PdfInit /\ SetupInit /\ ConfigInit /\ ImageOff /\ OpInit

NextLLM ==
    \/ Query /\ UNCHANGED nops
    \/ Chat /\ UNCHANGED nops
    \/ ClearHistory /\ UNCHANGED nops
    \/ AnalyzeScreenplay /\ UNCHANGED nops

SpecLLM == InitLLM /\ [][NextLLM]_vars

----------------------------------------------------------------------------
(* FilmUploadSystem.process_upload *)

UpperSeq == <<"A", "B", "C", "D", "E", "F", "G", "H", "I", "J", "K", "L", "M",
              "N", "O", "P", "Q", "R", "S", "T", "U", "V", "W", "X", "Y", "Z">>
LowerSeq == <<"a", "b", "c", "d", "e", "f", "g", "h", "i", "j", "k", "l", "m",
              "n", "o", "p", "q", "r", "s", "t", "u", "v", "w", "x", "y", "z">>

\* str.lower()
Lower(s) ==
    [i \in 1..Len(s) |->
        IF s[i] \in UpperChars
        THEN LowerSeq[CHOOSE k \in 1..Len(UpperSeq) : UpperSeq[k] = s[i]]
        ELSE s[i]]

\* the index of the last "." of a name, 0 when there is none
LastDot(name) ==
    IF \E i \in 1..Len(name) : name[i] = "."
    THEN CHOOSE i \in 1..Len(name) :
            name[i] = "." /\ \A j \in i + 1..Len(name) : name[j] # "."
    ELSE 0

\* Path.suffix: from the last dot, unless the name starts or ends with it
Suffix(name) ==
    LET i == LastDot(name) IN
    IF 1 < i /\ i < Len(name) THEN SubSeq(name, i, Len(name)) ELSE <<>>

\* Path.stem: the name without its suffix
Stem(name) == SubSeq(name, 1, Len(name) - Len(Suffix(name)))

\* self.supported_formats, in the order of the dict
SupportedFormats ==
    << [file_type |-> "screenplay",
        extensions |-> { <<".","f","o","u","n","t","a","i","n">>, <<".","f","d","x">>,
                         <<".","t","x","t">>, <<".","p","d","f">> }],
       [file_type |-> "mood_board",
        extensions |-> { <<".","p","d","f">>, <<".","z","i","p">> }],
       [file_type |-> "image",
        extensions |-> { <<".","j","p","g">>, <<".","j","p","e","g">>,
                         <<".","p","n","g">>, <<".","b","m","p">> }] >>

\* variant: the last type of the dict that lists the extension
detect_file_type_LastMatch(name) ==
    LET extension == Lower(Suffix(name))
        hits == {k \in 1..Len(SupportedFormats) : extension \in SupportedFormats[k].extensions}
    IN IF hits = {} THEN "unknown"
       ELSE SupportedFormats[CHOOSE k \in hits : \A h \in hits : k >= h].file_type

\* detect_file_type: the first type of the dict that lists the extension
detect_file_type(name) ==
    LET extension == Lower(Suffix(name))
        hits == {k \in 1..Len(SupportedFormats) : extension \in SupportedFormats[k].extensions}
    IN IF hits = {} THEN "unknown"
       ELSE SupportedFormats[CHOOSE k \in hits : \A h \in hits : k <= h].file_type

\* str(n) for a file size
RECURSIVE Digits(_)
Digits(n) ==
    LET d == <<"0", "1", "2", "3", "4", "5", "6", "7", "8", "9">>[(n % 10) + 1]
    IN IF n < 10 THEN <<d>> ELSE Append(Digits(n \div 10), d)

\* generate_upload_id: the digest prefix of name + str(size); the digest is
\* kept symbolic, equal text giving equal ids
generate_upload_id(name, size) == [md5_prefix_of |-> name \o Digits(size)]

\* what a file holds: UTF-8 text, a PDF document, or other bytes
TextData(t) == [kind |-> "text", text |-> t]
PdfData(size, pages) == [kind |-> "pdf", size |-> size, pages |-> pages]
BytesData(size) == [kind |-> "bytes", size |-> size]

\* file_path.stat().st_size
SizeOf(data) == IF data.kind = "text" THEN Len(data.text) ELSE data.size

\* the files a user picks; exists tells whether the path is there
UploadFiles ==
    { [name |-> <<"a",".","t","x","t">>, exists |-> TRUE,
       data |-> TextData(JoinLines(<<LineInt, LineAlice, LineProse>>))],
      [name |-> <<"a",".","t","x","t">>, exists |-> TRUE,
       data |-> TextData(JoinLines(<<LineInt, LineAlice, LineTheEnd>>))],
      [name |-> <<"B",".","T","X","T">>, exists |-> TRUE,
       data |-> TextData(JoinLines(<<LineAlice, LineTheEnd>>))],
      [name |-> <<"c",".","f","d","x">>, exists |-> TRUE, data |-> BytesData(12)],
      [name |-> <<"d",".","p","d","f">>, exists |-> TRUE,
       data |-> PdfData(120, << [text |-> LineExt \o NL, images |-> 2],
                                [text |-> LineBob \o NL, images |-> 0] >>)],
      [name |-> <<"e",".","p","d","f">>, exists |-> TRUE, data |-> BytesData(7)],
      [name |-> <<"f",".","z","i","p">>, exists |-> TRUE, data |-> BytesData(30)],
      [name |-> <<"g",".","p","n","g">>, exists |-> TRUE, data |-> BytesData(30)],
      [name |-> <<"n","o","t","e","s">>, exists |-> TRUE, data |-> TextData(LineProse)],
      [name |-> <<"g","o","n","e",".","t","x","t">>, exists |-> FALSE,
       data |-> BytesData(0)] }

\* the project names the caller passes: none, an empty text box, a name
ProjectNames == {None, <<>>, <<"D","e","m","o">>}

\* f"PDF text extraction failed: {e}", e being the text "error"
PdfTextFailed ==
    <<"P","D","F"," ","t","e","x","t"," ","e","x","t","r","a","c","t","i","o","n",
      " ","f","a","i","l","e","d",":"," ","e","r","r","o","r">>

RECURSIVE PagesText(_)
PagesText(pages) ==
    IF pages = <<>> THEN <<>> ELSE Head(pages).text \o PagesText(Tail(pages))

\* extract_pdf_text: the text of the pages, or the failure as the text
extract_pdf_text(data) ==
    IF data.kind = "pdf" THEN PagesText(data.pages) ELSE PdfTextFailed

\* process_screenplay(file_path): every dict it can return
ProcessScreenplayFile(name, data) ==
    IF Lower(Suffix(name)) = <<".","p","d","f">>
    THEN process_screenplay(extract_pdf_text(data))
    ELSE IF data.kind = "text" THEN process_screenplay(data.text)
    ELSE {ProcessScreenplayError}

RECURSIVE ImagesCount(_)
ImagesCount(pages) ==
    IF pages = <<>> THEN 0 ELSE Head(pages).images + ImagesCount(Tail(pages))

\* the stripped page texts that are not empty
RECURSIVE Annotations(_)
Annotations(pages) ==
    IF pages = <<>> THEN <<>>
    ELSE (IF Strip(Head(pages).text) # <<>> THEN <<Strip(Head(pages).text)>> ELSE <<>>)
            \o Annotations(Tail(pages))

\* process_pdf_mood_board
process_pdf_mood_board(data) ==
    IF data.kind = "pdf"
    THEN [images_found |-> ImagesCount(data.pages),
          annotations_count |-> Len(Annotations(data.pages)),
          annotations_preview |-> Take(Annotations(data.pages), 3)]
    ELSE [error |-> "PDF processing failed"]

\* process_mood_board
process_mood_board(name, data) ==
    IF Lower(Suffix(name)) = <<".","p","d","f">>
    THEN process_pdf_mood_board(data)
    ELSE [processed |-> TRUE, type |-> "mood_board"]

\* how the file system answers an upload
UploadFaults == {"none", "mkdir_fails", "copy_fails"}

\* process_upload(file_path, project_name): every way the call can end, with
\* the upload directory it leaves
process_upload(up, file, project_name, io) ==
    LET upload_id == generate_upload_id(file.name, SizeOf(file.data))
        file_type == detect_file_type(file.name)
        project == IF project_name = None \/ project_name = <<>>
                   THEN Stem(file.name) ELSE project_name
        made == [up EXCEPT !.dirs = @ \cup {project}]
        destination == <<project, file.name>>
        copied == [made EXCEPT !.files = DictPut(@, destination, file.data)]
        results == IF file_type = "screenplay"
                   THEN ProcessScreenplayFile(file.name, file.data)
                   ELSE IF file_type = "mood_board"
                   THEN {process_mood_board(file.name, file.data)}
                   ELSE {[processed |-> TRUE, type |-> "generic"]}
    IN IF ~ file.exists
       THEN { [uploads |-> up, fault |-> "none",
               last |-> Returned("process_upload",
                                 [error |-> <<"File not found: ", file.name>>])] }
       ELSE IF io = "mkdir_fails"
       THEN { [uploads |-> up, fault |-> io, last |-> Raised("process_upload", "OSError")] }
       ELSE IF io = "copy_fails"
       THEN { [uploads |-> made, fault |-> io, last |-> Raised("process_upload", "OSError")] }
       ELSE { [uploads |-> copied, fault |-> "none",
               last |-> Returned("process_upload",
                          [upload_id |-> upload_id,
                           original_name |-> file.name,
                           file_type |-> file_type,
                           project_name |-> project,
                           stored_path |-> destination,
                           file_size |-> SizeOf(file.data),
                           processing_result |-> pr])]
              : pr \in results }

\* the entry of the log for a call that returned an upload record
UploadLogged(file, result) ==
    IF result.outcome = "returned" /\ "upload_id" \in DOMAIN result.value
    THEN {[file |-> file, upload_id |-> result.value.upload_id]}
    ELSE {}

\* upload_system.process_upload(file_path, project_name)
ProcessUpload ==
    \E file \in UploadFiles, project_name \in ProjectNames, io \in UploadFaults :
        \E r \in process_upload(uploads, file, project_name, io) :
            /\ uploads' = r.uploads
            /\ upload_log' = upload_log \cup UploadLogged(file, r.last)
            /\ last' = r.last
            /\ fault' = r.fault
            /\ http_log' = <<>>
            /\ UNCHANGED <<current_project, ui_upload, textVars, storeVars, chatVars, pdfVars, imageVars, setupVars>>

----------------------------------------------------------------------------
(* The upload tab of the UI *)

\* the file component's value: nothing picked, or one of the files
NoFilePicked == [name |-> <<>>, exists |-> FALSE, data |-> BytesData(0)]

\* the project text box: empty, blank, a name
UiProjectNames == {<<>>, <<" ">>, <<"D","e","m","o">>}

DefaultProject == <<"D","e","f","a","u","l","t","_","P","r","o","j","e","c","t">>

\* the Markdown shown after a successful upload
UploadSuccessful(result, project_name) ==
    <<"# Upload Successful", "**File**: ">> \o result.original_name
        \o <<"**Type**: ", result.file_type, "**Project**: ">> \o project_name
        \o <<"**Upload ID**: ", "md5[:8] of ">> \o result.upload_id.md5_prefix_of
        \o <<"Ready for analysis and chat!">>

\* except Exception as e: current_project stays as it is
UploadFileExcept(e, current) ==
    [value |-> <<ErrorGlyph, " Upload error: ", e>>, current_project |-> current]

\* a body that records the project before it looks at the result
UploadFileTry_SetFirst(result, project_name, current) ==
    IF result.outcome = "raised"
    THEN UploadFileExcept(result.value, Project(project_name))
    ELSE IF "error" \in DOMAIN result.value
    THEN [value |-> <<ErrorGlyph, " Upload failed: ", result.value.error[1]>>
                        \o result.value.error[2],
          current_project |-> Project(project_name)]
    ELSE [value |-> UploadSuccessful(result.value, project_name),
          current_project |-> Project(project_name)]

\* the try block of upload_file, given what process_upload did
UploadFileTry(result, project_name, current) ==
    IF result.outcome = "raised"
    THEN UploadFileExcept(result.value, current)
    ELSE IF "error" \in DOMAIN result.value
    THEN [value |-> <<ErrorGlyph, " Upload failed: ", result.value.error[1]>>
                        \o result.value.error[2],
          current_project |-> current]
    ELSE [value |-> UploadSuccessful(result.value, project_name),
          current_project |-> Project(project_name)]

\* ui.upload_file(file, project_name)
UploadFile ==
    \E file \in UploadFiles \cup {NoFilePicked}, typed \in UiProjectNames,
       io \in UploadFaults :
        IF file = NoFilePicked
        THEN /\ last' = Returned("upload_file", <<"Please select a file to upload.">>)
             /\ ui_upload' = NoUpload
             /\ fault' = "none"
             /\ http_log' = <<>>
             /\ UNCHANGED <<uploads, upload_log, current_project,
                            textVars, storeVars, chatVars, pdfVars, imageVars, setupVars>>
        ELSE LET project_name == IF Strip(typed) = <<>> THEN DefaultProject ELSE typed IN
             \E r \in process_upload(uploads, file, project_name, io) :
                 LET shown == UploadFileTry(r.last, project_name, current_project) IN
                 /\ uploads' = r.uploads
                 /\ upload_log' = upload_log \cup UploadLogged(file, r.last)
                 /\ ui_upload' = [made |-> TRUE, outcome |-> r.last.outcome,
                                  value |-> r.last.value]
                 /\ current_project' = shown.current_project
                 /\ last' = Returned("upload_file", shown.value)
                 /\ fault' = r.fault
                 /\ http_log' = <<>>
                 /\ UNCHANGED <<textVars, storeVars, chatVars, pdfVars, imageVars, setupVars>>

\* ui.get_project_status()
GetProjectStatus ==
    /\ last' = Returned("get_project_status",
                 IF current_project.is_none \/ current_project.name = <<>>
                 THEN <<"No active project. Upload files to get started.">>
                 ELSE <<"# Project Status", "**Active Project**: ">>
                          \o current_project.name)
    /\ fault' = "none"
    /\ http_log' = <<>>
    /\ UNCHANGED <<textVars, storeVars, chatVars, uploadVars, pdfVars, imageVars, setupVars>>

\* most operations of one UI session
MaxUiOps == 2

TickUi ==
    /\ nops < MaxUiOps
    /\ nops' = nops + 1

InitUi == InitStore

NextUi ==
    \/ TickUi /\ UploadFile
    \/ TickUi /\ GetProjectStatus

SpecUi == InitUi /\ [][NextUi]_vars

----------------------------------------------------------------------------
(* scripts/setup/02-ollama-setup.py: OllamaSetup.run_setup, step by step *)

\* requests.get polls of start_ollama_service after Popen
ServicePolls == 15

SetupModel == "llama3.2:3b"
SetupFallbackModel == "llama3.2:1b"

\* a step returned True, returned False, or raised
StepOutcomes == {"true", "false", "raised"}

\* run_setup goes on recording no step outcome
SetupAfter_Ignore(step, outcome) ==
    CASE step = "check_python_deps" -> "check_ollama_installed"
      [] step = "check_ollama_installed" ->
            IF outcome = "true" THEN "start_ollama_service" ELSE "install_ollama"
      [] step = "install_ollama" -> "start_ollama_service"
      [] step = "start_ollama_service" -> "download_model"
      [] step = "download_model" -> "test_ollama_functionality"
      [] step = "test_ollama_functionality" -> "create_config_files"
      [] step = "create_config_files" -> "save_system_status"
      [] OTHER -> "return True"

\* where run_setup goes after a step: the if-not-return chain and the except
SetupAfter(step, outcome) ==
    IF outcome = "raised" THEN "return False"
    ELSE CASE step = "check_python_deps" ->
                IF outcome = "true" THEN "check_ollama_installed" ELSE "return False"
           [] step = "check_ollama_installed" ->
                IF outcome = "true" THEN "start_ollama_service" ELSE "install_ollama"
           [] step = "install_ollama" ->
                IF outcome = "true" THEN "start_ollama_service" ELSE "return False"
           [] step = "start_ollama_service" ->
                IF outcome = "true" THEN "download_model" ELSE "return False"
           [] step = "download_model" ->
                IF outcome = "true" THEN "test_ollama_functionality" ELSE "return False"
           [] step = "test_ollama_functionality" ->
                IF outcome = "true" THEN "create_config_files" ELSE "return False"
           [] step = "create_config_files" -> "save_system_status"
           [] OTHER -> "return True"

\* the step has run with this outcome: run_setup moves on or returns
SetupStep(s, step, outcome) ==
    LET to == SetupAfter(step, outcome) IN
    [s EXCEPT !.steps = Append(@, [step |-> step, outcome |-> outcome]),
              !.pc = IF to \in {"return True", "return False"} THEN "done" ELSE to,
              !.returned = IF to = "return True" THEN "True"
                           ELSE IF to = "return False" THEN "False" ELSE @]

SetupFrame ==
    UNCHANGED <<config, config_file, service, textVars, storeVars, chatVars, uploadVars, pdfVars, imageVars,
                opVars, nops>>

\* check_python_deps(): a missing package is installed with pip, and a pip
\* failure is printed and passed over
CheckPythonDeps ==
    /\ setup.pc = "check_python_deps"
    /\ \E missing \in BOOLEAN, pip_ok \in BOOLEAN :
           setup' = SetupStep(setup, "check_python_deps", "true")
    /\ SetupFrame

\* check_ollama_installed(): which ollama
CheckOllamaInstalled ==
    /\ setup.pc = "check_ollama_installed"
    /\ \E found \in BOOLEAN :
           setup' = SetupStep(setup, "check_ollama_installed",
                              IF found THEN "true" ELSE "false")
    /\ SetupFrame

\* install_ollama(): the install script through run_command
InstallOllama ==
    /\ setup.pc = "install_ollama"
    /\ \E success \in BOOLEAN :
           setup' = SetupStep(setup, "install_ollama", IF success THEN "true" ELSE "false")
    /\ SetupFrame

\* start_ollama_service(): answers_at is the poll at which /api/tags first
\* answers 200 (0: before Popen; beyond ServicePolls: not in time)
StartOllamaService ==
    /\ setup.pc = "start_ollama_service"
    /\ \E answers_at \in {0, 1, ServicePolls, ServicePolls + 1}, popen_raises \in BOOLEAN :
           LET outcome == IF answers_at = 0 THEN "true"
                          ELSE IF popen_raises THEN "raised"
                          ELSE IF answers_at <= ServicePolls THEN "true" ELSE "false"
           IN setup' = [SetupStep(setup, "start_ollama_service", outcome)
                           EXCEPT !.service_started = (outcome = "true")]
    /\ SetupFrame

\* what GET /api/tags gives download_model
SetupTags == {"has_model", "lacks_model", "not_200", "unreachable", "not_json"}

\* download_model(model_name): the models it found or pulled, or a failure
download_model(tags, pulls) ==
    IF tags = "not_json" THEN [outcome |-> "raised", ready |-> {}]
    ELSE IF tags = "has_model" THEN [outcome |-> "true", ready |-> {SetupModel}]
    ELSE IF pulls[SetupModel] THEN [outcome |-> "true", ready |-> {SetupModel}]
    ELSE IF pulls[SetupFallbackModel]
    THEN [outcome |-> "true", ready |-> {SetupFallbackModel}]
    ELSE [outcome |-> "false", ready |-> {}]

DownloadModel ==
    /\ setup.pc = "download_model"
    /\ \E tags \in SetupTags, pulls \in [{SetupModel, SetupFallbackModel} -> BOOLEAN] :
           LET r == download_model(tags, pulls) IN
           setup' = [SetupStep(setup, "download_model", r.outcome)
                        EXCEPT !.model_ready = r.ready]
    /\ SetupFrame

\* test_ollama_functionality(): one POST /api/generate; status 0 stands for
\* requests raising, a body that is not JSON is caught by except Exception
TestOllamaFunctionality ==
    /\ setup.pc = "test_ollama_functionality"
    /\ \E status \in {200, 404, 0}, valid \in BOOLEAN :
           LET outcome == IF status = 200 /\ valid THEN "true" ELSE "false" IN
           setup' = [SetupStep(setup, "test_ollama_functionality", outcome)
                        EXCEPT !.tested = (outcome = "true")]
    /\ SetupFrame

\* create_config_files(): mkdir, ollama_config.json, the prompt template
CreateConfigFiles ==
    /\ setup.pc = "create_config_files"
    /\ \E io \in {"ok", "mkdir_fails", "config_fails", "template_fails"} :
           LET written == IF io = "ok"
                          THEN {"ollama_config.json", "screenplay_analysis_template.txt"}
                          ELSE IF io = "template_fails" THEN {"ollama_config.json"}
                          ELSE {}
           IN setup' = [SetupStep(setup, "create_config_files",
                                  IF io = "ok" THEN "true" ELSE "raised")
                           EXCEPT !.written = @ \cup written, !.files = @ \cup written]
    /\ SetupFrame

\* save_system_status(): STATUS.md
SaveSystemStatus ==
    /\ setup.pc = "save_system_status"
    /\ \E io \in {"ok", "write_fails"} :
           setup' = [SetupStep(setup, "save_system_status",
                               IF io = "ok" THEN "true" ELSE "raised")
                        EXCEPT !.written = IF io = "ok" THEN @ \cup {"STATUS.md"} ELSE @,
                               !.files = IF io = "ok" THEN @ \cup {"STATUS.md"} ELSE @]
    /\ SetupFrame

\* most runs of the script on one machine
MaxSetupRuns == 2

\* main(): the script is run once more, over the files the earlier run left
RunSetup ==
    /\ setup.pc = "done"
    /\ setup.run < MaxSetupRuns
    /\ setup' = [SetupStart EXCEPT !.run = setup.run + 1, !.files = setup.files]
    /\ SetupFrame

InitSetup == InitStore

NextSetup ==
    \/ RunSetup
    \/ CheckPythonDeps
    \/ CheckOllamaInstalled
    \/ InstallOllama
    \/ StartOllamaService
    \/ DownloadModel
    \/ TestOllamaFunctionality
    \/ CreateConfigFiles
    \/ SaveSystemStatus

SpecSetup == InitSetup /\ [][NextSetup]_vars

----------------------------------------------------------------------------
(* OllamaSetup.start_ollama_service, request by request *)

\* what GET /api/tags gives: 200, another status, or requests raising (0)
TagsStatuses == {200, 500, 0}

ServiceFrame ==
    UNCHANGED <<setup, config, config_file, textVars, storeVars, chatVars, uploadVars,
                pdfVars, imageVars, opVars, nops>>

\* the check whether the service is already running
ServiceStatus ==
    /\ service.pc = "status"
    /\ \E status \in TagsStatuses :
           service' = IF status = 200
                      THEN [service EXCEPT !.requests = @ + 1, !.answered = TRUE,
                                           !.pc = "done", !.returned = "True"]
                      ELSE [service EXCEPT !.requests = @ + 1, !.pc = "popen"]
    /\ ServiceFrame

\* subprocess.Popen(["ollama", "serve"]): raises when there is no such program
ServicePopen ==
    /\ service.pc = "popen"
    /\ \E found \in BOOLEAN :
           service' = IF found
                      THEN [service EXCEPT !.popen = @ + 1, !.pc = "poll"]
                      ELSE [service EXCEPT !.pc = "done", !.returned = "raised"]
    /\ ServiceFrame

\* variant: only a poll that raised is counted
PollsAfter_RaisedOnly(polls, status) == IF status = 0 THEN polls + 1 ELSE polls

\* for i in range(15): every iteration is one poll
PollsAfter(polls, status) == polls + 1

\* one iteration of the loop: a 200 returns True, an exception sleeps
ServicePoll ==
    /\ service.pc = "poll"
    /\ service.polls < ServicePolls
    /\ \E status \in TagsStatuses :
           service' = IF status = 200
                      THEN [service EXCEPT !.polls = PollsAfter(@, status),
                                           !.answered = TRUE,
                                           !.pc = "done", !.returned = "True"]
                      ELSE [service EXCEPT !.polls = PollsAfter(@, status),
                                           !.sleeps = IF status = 0 THEN @ + 1 ELSE @]
    /\ ServiceFrame

\* the loop is over: return False
ServiceGiveUp ==
    /\ service.pc = "poll"
    /\ service.polls >= ServicePolls
    /\ service' = [service EXCEPT !.pc = "done", !.returned = "False"]
    /\ ServiceFrame

InitService == InitStore

NextService ==
    \/ ServiceStatus
    \/ ServicePopen
    \/ ServicePoll
    \/ ServiceGiveUp

\* the interpreter keeps running the call
SpecService == InitService /\ [][NextService]_vars /\ WF_vars(NextService)

----------------------------------------------------------------------------
(* The operations of one session, in any order *)

\* most operations of one session
MaxOps == 2

\* one more operation is run
Tick ==
    /\ nops < MaxOps
    /\ nops' = nops + 1

InitOps ==
    /\ TextOff /\ ChatInit /\ UploadInit /\ PdfInit /\ SetupInit /\ ConfigInit /\ ImageOff /\ OpInit
    /\ knowledge_store \in {EmptyStore, MalformedStore}
    /\ store_file = NoFile
    /\ session = [inherited |-> {}, added |-> {}, loaded |-> knowledge_store = MalformedStore,
                  replaced |-> FALSE]

NextOps ==
    \/ Tick /\ AddScreenplay
    \/ Tick /\ AddMoodBoard
    \/ Tick /\ Query
    \/ Tick /\ Chat
    \/ Tick /\ ProcessUpload

SpecOps == InitOps /\ [][NextOps]_vars

----------------------------------------------------------------------------
(* MoodBoardExtractor.extract_from_pdf *)

\* a text span is kept when its stripped text is longer than this
MinAnnotationLen == 3

RECURSIVE Concat(_)
Concat(ss) == IF ss = <<>> THEN <<>> ELSE Head(ss) \o Concat(Tail(ss))

\* the annotations of the spans of one line
SpanAnnotations(spans) ==
    Concat([i \in 1..Len(spans) |->
        LET text == Strip(spans[i].text) IN
        IF text # <<>> /\ Len(text) > MinAnnotationLen
        THEN << [text |-> text,
                 font |-> DictGet(spans[i], "font", "unknown"),
                 size |-> DictGet(spans[i], "size", 0)] >>
        ELSE <<>>])

\* the annotations of the blocks of page.get_text("dict"); a block without
\* "lines" (an image block) gives none
BlockAnnotations(blocks) ==
    Concat([b \in 1..Len(blocks) |->
        IF "lines" \in DOMAIN blocks[b]
        THEN Concat([l \in 1..Len(blocks[b].lines) |->
                        SpanAnnotations(blocks[b].lines[l].spans)])
        ELSE <<>>])

SpanMoody == [text |-> <<" ","M","o","o","d","y"," ">>, font |-> "Helvetica", size |-> 12]
SpanShort == [text |-> <<" ","o","k"," ">>, font |-> "Helvetica", size |-> 9]
SpanBare == [text |-> <<"N","o","i","r">>]

\* the PDF documents handed to the extractor; corrupt tells that fitz.open
\* rejects the file
PdfDocuments ==
    { [path |-> "board.pdf", corrupt |-> FALSE,
       pages |-> << [images |-> << [xref |-> 7, ext |-> "png"] >>,
                     blocks |-> << [lines |-> << [spans |-> <<SpanMoody, SpanShort>>] >>],
                                   [type |-> 1] >>],
                    [images |-> <<>>,
                     blocks |-> << [lines |-> << [spans |-> <<SpanBare>>] >>] >>] >>],
      [path |-> "stills.pdf", corrupt |-> FALSE,
       pages |-> << [images |-> << [xref |-> 3, ext |-> "jpeg"], [xref |-> 4, ext |-> "png"] >>,
                     blocks |-> <<>>] >>],
      [path |-> "broken.pdf", corrupt |-> TRUE, pages |-> <<>>] }

\* the project names handed to the extractor
PdfProjects == {"mood_board", "Demo"}

\* f"page_{page_num+1}_image_{img_index+1}.{image_ext}"
ImageFilename(page_num, img_index, image_ext) ==
    <<"page_">> \o Digits(page_num + 1) \o <<"_image_">> \o Digits(img_index + 1)
        \o <<".", image_ext>>

\* the steps of the loop body for the images of one page, from the i-th on
RECURSIVE ImageSteps(_, _, _)
ImageSteps(pdf, page_num, i) ==
    LET images == pdf.pages[page_num + 1].images IN
    IF i > Len(images) THEN <<>>
    ELSE << [op |-> "extract_image", raises |-> "RuntimeError", page_num |-> page_num,
             img_index |-> i - 1, ext |-> images[i].ext, xref |-> images[i].xref],
            [op |-> "open_image", raises |-> "OSError", page_num |-> page_num,
             img_index |-> i - 1, ext |-> images[i].ext, xref |-> images[i].xref],
            [op |-> "write_image", raises |-> "OSError", page_num |-> page_num,
             img_index |-> i - 1, ext |-> images[i].ext, xref |-> images[i].xref] >>
         \o ImageSteps(pdf, page_num, i + 1)

\* the steps of the loop over the pages, from page_num on
RECURSIVE PageSteps(_, _)
PageSteps(pdf, page_num) ==
    IF page_num >= Len(pdf.pages) THEN <<>>
    ELSE << [op |-> "load_page", raises |-> "RuntimeError", page_num |-> page_num] >>
         \o ImageSteps(pdf, page_num, 1)
         \o << [op |-> "get_text", raises |-> "RuntimeError", page_num |-> page_num] >>
         \o PageSteps(pdf, page_num + 1)

\* the steps of the try block that can raise, in the order they run
ExtractSteps(pdf) ==
    << [op |-> "open_pdf", raises |-> "FileDataError"],
       [op |-> "mkdir", raises |-> "OSError"] >>
    \o PageSteps(pdf, 0)
    \o << [op |-> "open_report", raises |-> "OSError"],
          [op |-> "dump_report", raises |-> "OSError"],
          [op |-> "close_pdf", raises |-> "RuntimeError"] >>

\* self.extracted_data["metadata"] = {...}
ExtractionMetadata(pdf, project_name, total_images) ==
    [source_pdf |-> pdf.path, project_name |-> project_name,
     total_pages |-> Len(pdf.pages), total_images |-> total_images,
     extraction_complete |-> TRUE]

\* a step that went through; st = [data, disk, total_images]
StepDone(st, step, pdf, project_name) ==
    LET filename == ImageFilename(step.page_num, step.img_index, step.ext)
        image_path == <<project_name, filename>>
        report_path == <<project_name, <<"extraction_report.json">> >>
        with_metadata == [st.data EXCEPT
                            !.metadata = ExtractionMetadata(pdf, project_name, st.total_images)]
    IN CASE step.op = "mkdir" ->
                [st EXCEPT !.disk.dirs = @ \cup {project_name}]
         [] step.op = "open_image" ->
                [st EXCEPT !.disk.files = DictPut(@, image_path, [state |-> "truncated"])]
         [] step.op = "write_image" ->
                [st EXCEPT !.disk.files = DictPut(@, image_path,
                                             [state |-> "complete", xref |-> step.xref]),
                           !.data.images = Append(@, [filename |-> filename,
                                                      page |-> step.page_num + 1,
                                                      path |-> image_path]),
                           !.total_images = @ + 1]
         [] step.op = "get_text" ->
                [st EXCEPT !.data.text_annotations =
                              @ \o BlockAnnotations(pdf.pages[step.page_num + 1].blocks)]
         [] step.op = "open_report" ->
                [st EXCEPT !.data = with_metadata,
                           !.disk.files = DictPut(@, report_path, [state |-> "truncated"])]
         [] step.op = "dump_report" ->
                [st EXCEPT !.disk.files = DictPut(@, report_path,
                                             [state |-> "complete", report |-> st.data])]
         [] OTHER -> st

\* a step that raised: the assignments that precede the raising call are made
StepRaised(st, step, pdf, project_name) ==
    IF step.op = "open_report"
    THEN [st EXCEPT !.data.metadata = ExtractionMetadata(pdf, project_name, st.total_images)]
    ELSE st

\* the steps from the i-th on; the one at failpoint raises (0: none does)
RECURSIVE RunSteps(_, _, _, _, _, _)
RunSteps(steps, i, failpoint, st, pdf, project_name) ==
    IF i > Len(steps) THEN [st EXCEPT !.raised = None]
    ELSE IF i = failpoint \/ (steps[i].op = "open_pdf" /\ pdf.corrupt)
    THEN [StepRaised(st, steps[i], pdf, project_name) EXCEPT
             !.raised = steps[i].raises, !.failed = steps[i].op]
    ELSE RunSteps(steps, i + 1, failpoint, StepDone(st, steps[i], pdf, project_name),
                  pdf, project_name)

\* the try block of extract_from_pdf
ExtractTry(data, disk, pdf, project_name, failpoint) ==
    RunSteps(ExtractSteps(pdf), 1, failpoint,
             [data |-> data, disk |-> disk, total_images |-> 0,
              raised |-> None, failed |-> "none"],
             pdf, project_name)

\* the value the call hands back: the report, or None
ReturnsReport(data) == [is_none |-> FALSE, report |-> data]
ReturnsNone == [is_none |-> TRUE, report |-> EmptyDict]

\* variant: only the errors of the file system are caught
ExtractExcept_OSErrorOnly(r) ==
    IF r.raised = None THEN Returned("extract_from_pdf", ReturnsReport(r.data))
    ELSE IF r.raised = "OSError" THEN Returned("extract_from_pdf", ReturnsNone)
    ELSE Raised("extract_from_pdf", r.raised)

\* except Exception as e: return None
ExtractExcept(r) ==
    IF r.raised = None THEN Returned("extract_from_pdf", ReturnsReport(r.data))
    ELSE Returned("extract_from_pdf", ReturnsNone)

\* extractor.extract_from_pdf(pdf_path, project_name)
ExtractFromPdf ==
    \E pdf \in PdfDocuments, project_name \in PdfProjects :
    \E failpoint \in 0..Len(ExtractSteps(pdf)) :
        LET r == ExtractTry(extracted_data, pdf_disk, pdf, project_name, failpoint) IN
        /\ extracted_data' = r.data
        /\ pdf_disk' = r.disk
        /\ last' = ExtractExcept(r)
        /\ fault' = r.failed
        /\ http_log' = <<>>
        /\ UNCHANGED <<textVars, storeVars, chatVars, uploadVars, imageVars, setupVars>>

InitPdf ==
    /\ TextOff /\ StoreInit /\ ChatInit /\ UploadInit /\ PdfInit /\ SetupInit /\ ConfigInit /\ ImageOff /\ OpInit

NextPdf ==
    \/ Tick /\ ExtractFromPdf

SpecPdf == InitPdf /\ [][NextPdf]_vars

----------------------------------------------------------------------------
(* VisualMoodAnalyzer.analyze_brightness *)

\* most pixels of a coloured image
MaxPixels == 2

\* the one-pixel grey images, one of every level of an 8-bit channel
GreyImages == { << [b |-> v, g |-> v, r |-> v] >> : v \in 0..255 }

\* pixels (blue, green, red) of the coloured images
Palette ==
    { [b |-> 255, g |-> 0, r |-> 0], [b |-> 0, g |-> 255, r |-> 0],
      [b |-> 0, g |-> 0, r |-> 255], [b |-> 69, g |-> 69, r |-> 69],
      [b |-> 70, g |-> 70, r |-> 70], [b |-> 71, g |-> 71, r |-> 71],
      [b |-> 179, g |-> 179, r |-> 179], [b |-> 180, g |-> 180, r |-> 180],
      [b |-> 181, g |-> 181, r |-> 181], [b |-> 255, g |-> 255, r |-> 255] }

\* the images handed to analyze_brightness; <<>> is an image without pixels
Images == GreyImages \cup UNION {[1..n -> Palette] : n \in 0..MaxPixels}

\* cv2.cvtColor(image, cv2.COLOR_BGR2GRAY) on 8-bit pixels: the weighted sum
\* in 14-bit fixed point, rounded
CvtColorGray(img) ==
    [i \in 1..Len(img) |->
        (img[i].b * 1868 + img[i].g * 9617 + img[i].r * 4899 + 8192) \div 16384]

RECURSIVE SumSeq(_)
SumSeq(s) == IF s = <<>> THEN 0 ELSE Head(s) + SumSeq(Tail(s))

\* np.mean(gray), as the fraction num / den
Mean(gray) == [num |-> SumSeq(gray), den |-> Len(gray)]

\* the thresholds of the levels
BrightnessHigh == 180
BrightnessLow == 70

\* variant: the thresholds belong to the outer levels
analyze_brightness_Inclusive(img) ==
    IF img = <<>> THEN [error |-> "cv2.error"]
    ELSE LET brightness == Mean(CvtColorGray(img)) IN
         IF brightness.num >= BrightnessHigh * brightness.den
         THEN [level |-> "high", value |-> brightness]
         ELSE IF brightness.num <= BrightnessLow * brightness.den
         THEN [level |-> "low", value |-> brightness]
         ELSE [level |-> "medium", value |-> brightness]

\* analyze_brightness(image): cvtColor raises on an image without pixels
analyze_brightness(img) ==
    IF img = <<>> THEN [error |-> "cv2.error"]
    ELSE LET brightness == Mean(CvtColorGray(img)) IN
         IF brightness.num > BrightnessHigh * brightness.den
         THEN [level |-> "high", value |-> brightness]
         ELSE IF brightness.num < BrightnessLow * brightness.den
         THEN [level |-> "low", value |-> brightness]
         ELSE [level |-> "medium", value |-> brightness]

\* analyzer.analyze_brightness(image)
AnalyzeBrightness ==
    /\ last' = Returned("analyze_brightness", analyze_brightness(image))
    /\ fault' = IF image = <<>> THEN "no_pixels" ELSE "none"
    /\ http_log' = <<>>
    /\ UNCHANGED <<textVars, storeVars, chatVars, uploadVars, pdfVars, imageVars, setupVars>>

InitBright ==
    /\ TextOff /\ StoreInit /\ ChatInit /\ UploadInit /\ PdfInit /\ SetupInit /\ ConfigInit /\ OpInit
    /\ image \in Images

NextBright ==
    \/ AnalyzeBrightness /\ UNCHANGED nops

SpecBright == InitBright /\ [][NextBright]_vars

----------------------------------------------------------------------------
(* chat() invocations started by the handlers, on one event loop *)

\* the messages of the handlers
HandlerMessages == {"Who are the main characters?", "What mood do the visuals convey?"}

\* variant: the awaited coroutine hands the event loop back while it waits
AwaitSuspends_Yields(point) == TRUE

\* whether an await of chat() hands the event loop to another invocation:
\* generate_response and query are coroutines that run requests.post, a
\* blocking call, and await nothing else, so neither await suspends
AwaitSuspends(point) == FALSE

\* the event loop runs handler h: it is free, or h already has it
MayRun(h) == running \in {"none", h}

\* chat(), up to "await self.generate_response(message, context)"
ChatAppendUser(h) ==
    /\ MayRun(h)
    /\ tasks[h].pc = "idle"
    /\ \E message \in HandlerMessages :
          tasks' = [tasks EXCEPT ![h] = [pc |-> "generate", message |-> message,
                                         user_at |-> Len(chat_history) + 1,
                                         assistant_at |-> 0]]
          /\ chat_history' = Append(chat_history, UserEntry(message))
    /\ running' = IF AwaitSuspends("generate_response") THEN "none" ELSE h
    /\ UNCHANGED <<rag_engine, textVars, storeVars, uploadVars, pdfVars, imageVars, setupVars, opVars>>

\* generate_response(), up to "await self.rag_engine.query(message)"; without
\* a RAG engine there is no await and the invocation goes on
ChatEnterGenerate(h) ==
    /\ MayRun(h)
    /\ tasks[h].pc = "generate"
    /\ tasks' = [tasks EXCEPT ![h].pc = "respond"]
    /\ running' = IF rag_engine /\ AwaitSuspends("query") THEN "none" ELSE h
    /\ UNCHANGED <<rag_engine, chat_history, textVars, storeVars, uploadVars, pdfVars,
                   imageVars, setupVars, opVars>>

\* the rest of generate_response() and of chat(): the query, the request, the
\* assistant entry
ChatAppendAssistant(h) ==
    /\ MayRun(h)
    /\ tasks[h].pc = "respond"
    /\ \E script \in Scripts :
        LET r == GenerateResponse(rag_engine, knowledge_store, tasks[h].message, script) IN
        /\ chat_history' =
              IF r.outcome = "returned"
              THEN Append(chat_history, AssistantEntry(r.value.content))
              ELSE chat_history
        /\ tasks' = [tasks EXCEPT ![h].pc = "done",
                                  ![h].assistant_at =
                                      IF r.outcome = "returned"
                                      THEN Len(chat_history) + 1 ELSE 0]
        /\ http_log' = r.log
        /\ last' = [op |-> "chat", outcome |-> r.outcome, value |-> r.value]
        /\ fault' = "none"
    /\ running' = "none"
    /\ UNCHANGED <<rag_engine, textVars, storeVars, uploadVars, pdfVars, imageVars, setupVars>>

InitTasks ==
    /\ TextOff /\ StoreInit /\ UploadInit /\ PdfInit /\ SetupInit /\ ConfigInit /\ ImageOff /\ OpInit
    /\ rag_engine \in BOOLEAN
    /\ chat_history = <<>>
    /\ TasksIdle

NextTasks ==
    \/ \E h \in Handlers : ChatAppendUser(h) /\ UNCHANGED nops
    \/ \E h \in Handlers : ChatEnterGenerate(h) /\ UNCHANGED nops
    \/ \E h \in Handlers : ChatAppendAssistant(h) /\ UNCHANGED nops

SpecTasks == InitTasks /\ [][NextTasks]_vars

----------------------------------------------------------------------------
(* FilmRAGCore across processes: construction and load_knowledge_store *)

\* variant: construction reads the file when there is one
InitialStore_FromFile(file) ==
    IF file.state = "complete"
    THEN [screenplays |-> file.doc.screenplays, mood_boards |-> file.doc.mood_boards,
          relationships |-> file.doc.relationships]
    ELSE EmptyStore

\* self.knowledge_store as __init__ sets it; the file is not looked at
InitialStore(file) == EmptyStore

\* the process ends and a new one constructs FilmRAGCore() over the same
\* working directory
NewProcess ==
    /\ knowledge_store' = InitialStore(store_file)
    /\ session' = NewSession(store_file)
    /\ last' = Returned("__init__", None)
    /\ fault' = "none"
    /\ http_log' = <<>>
    /\ UNCHANGED <<store_file, textVars, chatVars, uploadVars, pdfVars, imageVars, setupVars>>

\* load_knowledge_store(): json.load replaces the store; a file that does not
\* parse is reported and the store is kept
LoadKnowledgeStore ==
    /\ knowledge_store' =
          IF store_file.state = "complete"
          THEN [screenplays |-> store_file.doc.screenplays,
                mood_boards |-> store_file.doc.mood_boards,
                relationships |-> store_file.doc.relationships]
          ELSE knowledge_store
    /\ session' = [session EXCEPT !.loaded = TRUE]
    /\ last' = Returned("load_knowledge_store", None)
    /\ fault' = IF store_file.state = "truncated" THEN "not_json" ELSE "none"
    /\ http_log' = <<>>
    /\ UNCHANGED <<store_file, textVars, chatVars, uploadVars, pdfVars, imageVars, setupVars>>

\* most operations over the processes of one working directory
MaxProcessOps == 4

TickProcess ==
    /\ nops < MaxProcessOps
    /\ nops' = nops + 1

InitProcess == InitStore

NextProcess ==
    \/ TickProcess /\ AddScreenplay
    \/ TickProcess /\ AddMoodBoard
    \/ TickProcess /\ NewProcess
    \/ TickProcess /\ LoadKnowledgeStore

SpecProcess == InitProcess /\ [][NextProcess]_vars

----------------------------------------------------------------------------
(* The text pipeline: one text, tokenized by each of the tokenizers *)

InitText ==
    /\ content \in Texts
    /\ pc = "input"
    /\ chunks = <<>>
    /\ entities = None
    /\ parsed = None
    /\ processed = None
    /\ StoreInit /\ ChatInit /\ UploadInit /\ PdfInit /\ SetupInit /\ ConfigInit /\ ImageOff /\ OpInit

ChunkScreenplay ==
    /\ pc = "input"
    /\ \E r \in chunk_screenplay(content) : chunks' = r
    /\ pc' = "chunked"
    /\ UNCHANGED <<content, entities, parsed, processed, storeVars, chatVars, uploadVars, pdfVars, imageVars, setupVars, opVars>>

ExtractEntities ==
    /\ pc = "chunked"
    /\ entities' = extract_entities(chunks)
    /\ pc' = "extracted"
    /\ UNCHANGED <<content, chunks, parsed, processed, storeVars, chatVars, uploadVars, pdfVars, imageVars, setupVars, opVars>>

ParseScreenplay ==
    /\ pc = "input"
    /\ \E r \in parse_screenplay(content) : parsed' = r
    /\ pc' = "parsed"
    /\ UNCHANGED <<content, chunks, entities, processed, storeVars, chatVars, uploadVars, pdfVars, imageVars, setupVars, opVars>>

\* the file holds the text; open() or read() may raise
ProcessScreenplay ==
    /\ pc = "input"
    /\ \E readable \in BOOLEAN :
          IF readable
          THEN \E r \in process_screenplay(content) : processed' = r
          ELSE processed' = ProcessScreenplayError
    /\ pc' = "processed"
    /\ UNCHANGED <<content, chunks, entities, parsed, storeVars, chatVars, uploadVars, pdfVars, imageVars, setupVars, opVars>>

Next ==
    \/ ChunkScreenplay /\ UNCHANGED nops
    \/ ExtractEntities /\ UNCHANGED nops
    \/ ParseScreenplay /\ UNCHANGED nops
    \/ ProcessScreenplay /\ UNCHANGED nops

Spec == InitText /\ [][Next]_vars

----------------------------------------------------------------------------
(* Properties of the tokenizers *)

\* the trimmed lines of the input text, in input order
TrimmedLines == LET ls == Split(content, "\n") IN [i \in 1..Len(ls) |-> Strip(ls[i])]

\* the elements of T at the indices I, in index order
SubSeqAt(T, I) ==
    [k \in 1..Cardinality(I) |-> T[CHOOSE i \in I : Cardinality({j \in I : j < i}) = k - 1]]

\* the non-blank lines of a chunk's content
ChunkLines(c) == SelectSeq(Split(c.content, "\n"), LAMBDA l : l # <<>>)

\* line begins with the characters of p
HasPrefix(line, p) == Len(line) >= Len(p) /\ \A i \in 1..Len(p) : line[i] = p[i]

\* a scene boundary: the trimmed line starts with INT., EXT., FADE IN or FADE OUT
SceneBoundary(line) ==
    \/ HasPrefix(line, <<"I","N","T",".">>)
    \/ HasPrefix(line, <<"E","X","T",".">>)
    \/ HasPrefix(line, <<"F","A","D","E"," ","I","N">>)
    \/ HasPrefix(line, <<"F","A","D","E"," ","O","U","T">>)

\* a scene boundary as the specification words it: any FADE prefix
FadePrefixBoundary(line) ==
    \/ HasPrefix(line, <<"I","N","T",".">>)
    \/ HasPrefix(line, <<"E","X","T",".">>)
    \/ HasPrefix(line, <<"F","A","D","E">>)

\* the number of boundary lines at or before line i: 0 before the first boundary
SegmentOf(T, i) == Cardinality({j \in 1..i : SceneBoundary(T[j])})

\* the non-blank lines of segment s
SegmentLines(T, s) ==
    SubSeqAt(T, {i \in 1..Len(T) : SegmentOf(T, i) = s /\ T[i] # <<>>})

\* the segments that hold a non-blank line
Segments(T) == {s \in 0..Len(T) : SegmentLines(T, s) # <<>>}

\* C1: every non-blank trimmed line is in exactly one chunk, in input order
\* within and across chunks, and in the chunk opened by the nearest scene
\* boundary at or before it (the header-less first chunk when there is none)
C1_LinesPartitioned ==
    pc = "chunked" =>
        LET T == TrimmedLines
            segs == SubSeqAt([i \in 1..Len(T) + 1 |-> i - 1], {s + 1 : s \in Segments(T)})
        IN /\ Len(chunks) = Len(segs)
           /\ \A k \in 1..Len(chunks) :
                /\ ChunkLines(chunks[k]) = SegmentLines(T, segs[k])
                /\ chunks[k].scene_number = segs[k]
                /\ chunks[k].scene_header =
                       IF segs[k] = 0 THEN <<>> ELSE ChunkLines(chunks[k])[1]

\* C1 witness: a header-less first chunk of two lines, then a chunk opened by
\* a boundary
C1_Witness ==
    /\ pc = "chunked"
    /\ Len(chunks) = 2
    /\ chunks[1].scene_header = <<>>
    /\ Len(ChunkLines(chunks[1])) = 2
    /\ chunks[2].scene_header # <<>>

\* the chunk headers are the lines B holds of, in input order, each heading
\* its own chunk, and no line B holds of lies inside a chunk
HeadersAre(B(_)) ==
    LET heads == SelectSeq([k \in 1..Len(chunks) |-> chunks[k].scene_header],
                           LAMBDA h : h # <<>>)
    IN /\ heads = SelectSeq(TrimmedLines, B)
       /\ \A k \in 1..Len(chunks) :
            LET ls == ChunkLines(chunks[k]) IN
            /\ chunks[k].scene_header # <<>> => ls[1] = chunks[k].scene_header
            /\ \A j \in 1..Len(ls) :
                 B(ls[j]) => (j = 1 /\ chunks[k].scene_header # <<>>)

\* C2 as stated: the lines starting with INT., EXT. or FADE, and no others,
\* close the current chunk and become the scene_header of a new chunk
C2_FadePrefix == pc = "chunked" => HeadersAre(FadePrefixBoundary)

\* C2 as amended: the lines starting with INT., EXT., FADE IN or FADE OUT, and
\* no others, close the current chunk and become the scene_header of a new one
C2_SceneBreaks == pc = "chunked" => HeadersAre(SceneBoundary)

\* C2 witness: a chunk opened by FADE IN: follows another chunk
C2_Witness ==
    /\ pc = "chunked"
    /\ Len(chunks) = 2
    /\ chunks[2].scene_header = Strip(LineFadeIn)

\* a transition or direction: FADE..., CUT..., THE END
Keyword(line) ==
    \/ HasPrefix(line, <<"F","A","D","E">>)
    \/ HasPrefix(line, <<"C","U","T">>)
    \/ line = <<"T","H","E"," ","E","N","D">>

\* a character cue: all-uppercase, at most 3 words, no boundary, no keyword
Cue(line) ==
    /\ IsUpper(line)
    /\ Len(SplitWords(line)) <= 3
    /\ ~ SceneBoundary(line)
    /\ ~ Keyword(line)

\* C3: a line is recorded as a character by chunk_screenplay, parse_screenplay
\* or process_screenplay only if it is all-uppercase, of at most 3 words, not
\* a scene boundary and not a known keyword
C3_OnlyCues ==
    /\ pc = "chunked" =>
         \A k \in 1..Len(chunks) : \A c \in Range(chunks[k].characters) : Cue(c)
    /\ pc = "parsed" =>
         \A c \in Range(parsed.characters) :
            \E i \in 1..Len(TrimmedLines) :
               Cue(TrimmedLines[i]) /\ c = CharNameOf(TrimmedLines[i])
    /\ (pc = "processed" /\ processed # ProcessScreenplayError) =>
         \A c \in Range(processed.characters_found) : Cue(c)

\* the chunks whose characters list contains c
ChunksWith(c) == {k \in 1..Len(chunks) : c \in Range(chunks[k].characters)}

\* C4: the keys of entities['characters'] are the names of the chunks'
\* characters lists; mentions is the number of chunks listing the name and
\* the length of scenes, which lists those chunks' scene numbers in order
C4_CharacterEntities ==
    pc = "extracted" =>
        /\ DOMAIN entities.characters =
              UNION {Range(chunks[k].characters) : k \in 1..Len(chunks)}
        /\ \A c \in DOMAIN entities.characters :
              /\ entities.characters[c].mentions = Cardinality(ChunksWith(c))
              /\ entities.characters[c].mentions = Len(entities.characters[c].scenes)
              /\ entities.characters[c].scenes =
                    SubSeqAt([k \in 1..Len(chunks) |-> chunks[k].scene_number],
                             ChunksWith(c))

\* C4 witness: a character listed by two chunks
C4_Witness ==
    /\ pc = "extracted"
    /\ \E c \in DOMAIN entities.characters : entities.characters[c].mentions = 2

----------------------------------------------------------------------------
(* Properties of the knowledge store *)

\* C5: after each add_screenplay or add_mood_board call that returns, the file
\* knowledge_store.json holds the whole in-memory knowledge store
C5_FileHoldsStore ==
    (last.outcome = "returned"
       /\ last.op \in {"add_screenplay", "add_mood_board"}) =>
        /\ store_file.state = "complete"
        /\ store_file.doc.screenplays = knowledge_store.screenplays
        /\ store_file.doc.mood_boards = knowledge_store.mood_boards
        /\ store_file.doc.relationships = knowledge_store.relationships

\* C5 witness: a returned addition with both kinds of record in the store,
\* after an earlier save had left the file truncated
C5_Witness ==
    /\ last.outcome = "returned"
    /\ DOMAIN knowledge_store.screenplays = Titles
    /\ DOMAIN knowledge_store.mood_boards # {}

----------------------------------------------------------------------------
(* Properties of the LLM invocations *)

\* the texts query returns for a failure
IsQueryErrorText(v) == v # <<>> /\ v[1] \in {"Query error: ", "Error querying LLM: "}

\* the server answered the query 200 with a body that decodes
QueryAnswered ==
    /\ http_log # <<>>
    /\ http_log[1].reply.status = 200
    /\ http_log[1].reply.valid

\* C6 as stated: query never raises; answered 200 it returns the reply's
\* 'response' field, and on a non-200 status or an exception an error string
C6_ResponseOrError ==
    last.op = "query" =>
        /\ last.outcome = "returned"
        /\ IF QueryAnswered
           THEN /\ "response" \in DOMAIN http_log[1].reply.fields
                /\ last.value = <<http_log[1].reply.fields["response"]>>
           ELSE IsQueryErrorText(last.value)

\* C6 as amended: query never raises; answered 200 it returns the reply's
\* 'response' field, or the fixed text 'No response generated' when the reply
\* has no such field; on a non-200 status or an exception an error string
C6_ResponseDefaultOrError ==
    last.op = "query" =>
        /\ last.outcome = "returned"
        /\ IF QueryAnswered
           THEN last.value =
                  IF "response" \in DOMAIN http_log[1].reply.fields
                  THEN <<http_log[1].reply.fields["response"]>>
                  ELSE <<"No response generated">>
           ELSE IsQueryErrorText(last.value)

\* C6 witness: a query answered 200 by a reply without a 'response' field
C6_Witness ==
    /\ last.op = "query"
    /\ QueryAnswered
    /\ "response" \notin DOMAIN http_log[1].reply.fields
    /\ last.value = <<"No response generated">>

\* the exchanges of the log that are POST /api/generate
GeneratePosts ==
    {i \in 1..Len(http_log) :
        http_log[i].request.method = "POST" /\ http_log[i].request.path = "/api/generate"}

\* C7: a call of query, of generate_response without a RAG engine, or of
\* analyze_screenplay sends at most one POST /api/generate, and no request
\* after a reply that is not 200 or an exception
C7_NoRetry ==
    (\/ last.op \in {"query", "analyze_screenplay"}
     \/ (last.op = "chat" /\ ~ rag_engine)) =>
        /\ Cardinality(GeneratePosts) <= 1
        /\ \A i \in 1..Len(http_log) :
              http_log[i].reply.status # 200 => i = Len(http_log)

\* C7 witness: a query whose only POST was answered 500
C7_Witness ==
    /\ last.op = "query"
    /\ Len(http_log) = 1
    /\ http_log[1].reply.status = 500
    /\ GeneratePosts = {1}

----------------------------------------------------------------------------
(* Error handling of the operations, under SpecOps *)

Operations == {"query", "add_screenplay", "add_mood_board", "process_upload", "chat"}

\* a request of the last operation went unanswered, or was answered by an
\* error status or by a body that does not decode
RequestFailed ==
    \E i \in 1..Len(http_log) :
        http_log[i].reply.status # 200 \/ ~ http_log[i].reply.valid

\* the last operation met a failure
OperationFailed ==
    \/ fault # "none"
    \/ RequestFailed
    \/ /\ last.op = "process_upload"
       /\ last.outcome = "returned"
       /\ "error" \in DOMAIN last.value

\* the last operation returned a text that opens with the error glyph
ReportedWithGlyph ==
    /\ last.outcome = "returned"
    /\ last.op = "query"
    /\ last.value # <<>>
    /\ Head(last.value) = ErrorGlyph

\* C8: no operation (query, add_screenplay, add_mood_board, process_upload,
\* chat) lets a failure out as an exception, and every failure is reported as
\* a text that begins with the error glyph
C8_FailuresReportedWithGlyph ==
    last.op \in Operations =>
        /\ last.outcome # "raised"
        /\ OperationFailed => ReportedWithGlyph

----------------------------------------------------------------------------
(* The PDF extractor, under SpecPdf *)

\* the entries the last extraction appended to the images of the report
LastImages(report) ==
    SubSeq(report.images,
           Len(report.images) - report.metadata.total_images + 1, Len(report.images))

\* every step of the last extraction went through: its images and its report
\* are whole files of the project directory
EveryStepSucceeded(report) ==
    LET project == report.metadata.project_name
        report_path == <<project, <<"extraction_report.json">> >>
    IN /\ fault = "none"
       /\ project \in pdf_disk.dirs
       /\ \A i \in 1..Len(LastImages(report)) :
             /\ LastImages(report)[i].path \in DOMAIN pdf_disk.files
             /\ pdf_disk.files[LastImages(report)[i].path].state = "complete"
       /\ report_path \in DOMAIN pdf_disk.files
       /\ pdf_disk.files[report_path] = [state |-> "complete", report |-> report]

\* C9: extract_from_pdf never raises; when any step fails (opening the PDF,
\* extracting an image, writing an image or the report) it returns None, and
\* it returns the extracted-data report only when every step succeeded
C9_NoneOnAnyFailure ==
    last.op = "extract_from_pdf" =>
        /\ last.outcome = "returned"
        /\ fault # "none" => last.value.is_none
        /\ ~ last.value.is_none =>
              /\ last.value.report = extracted_data
              /\ EveryStepSucceeded(last.value.report)

\* C9 witness: an extraction that followed one which had reached its report
\* failed while writing an image, and returned None
C9_Witness ==
    /\ last.op = "extract_from_pdf"
    /\ fault = "write_image"
    /\ last.outcome = "returned"
    /\ last.value.is_none
    /\ "extraction_complete" \in DOMAIN extracted_data.metadata
    /\ extracted_data.images # <<>>

----------------------------------------------------------------------------
(* The brightness levels, under SpecBright *)

\* every pixel of the image is grey of level v
GreyOf(v) == \A i \in 1..Len(image) : image[i] = [b |-> v, g |-> v, r |-> v]

\* C10: analyze_brightness puts every mean grey value m of 0..255 into exactly
\* one of three levels: high iff m > 180, low iff m < 70, medium otherwise
\* (so m = 70 and m = 180 are medium); m is the mean the call reports, which
\* for an image of one grey level is that level
C10_BrightnessLevels ==
    (last.op = "analyze_brightness" /\ image # <<>>) =>
        LET num == last.value.value.num
            den == last.value.value.den
        IN /\ last.outcome = "returned"
           /\ den > 0 /\ 0 <= num /\ num <= 255 * den
           /\ \A v \in 0..255 : GreyOf(v) => num = v * den
           /\ last.value.level \in {"high", "medium", "low"}
           /\ last.value.level = "high" <=> num > 180 * den
           /\ last.value.level = "low" <=> num < 70 * den
           /\ last.value.level = "medium" <=> (70 * den <= num /\ num <= 180 * den)

\* C10 witness: images whose means are the two thresholds were classified,
\* here the one of mean 70 (pixels 69 and 71)
C10_Witness ==
    /\ last.op = "analyze_brightness"
    /\ Len(image) = 2
    /\ image[1] # image[2]
    /\ last.value.value.num = 70 * last.value.value.den
    /\ last.value.level = "medium"

----------------------------------------------------------------------------
(* The chat fallback, under SpecLLM *)

\* the fixed texts generate_response answers a failure with
FallbackContents ==
    {"I'm having trouble responding right now.", "I'm experiencing technical difficulties."}

\* the reply to the request generate_response itself posts: the last exchange
OwnReplyOk ==
    /\ http_log # <<>>
    /\ http_log[Len(http_log)].reply.status = 200
    /\ http_log[Len(http_log)].reply.valid

\* C11: generate_response never raises; its status is 'success' only when the
\* LLM replied 200, and on a non-200 reply or an exception it is 'error' with
\* one of the fixed fallback contents; chat then always records an assistant
\* reply after the user message
C11_CannedFallback ==
    last.op = "chat" =>
        /\ last.outcome = "returned"
        /\ last.value.status \in {"success", "error"}
        /\ last.value.status = "success" =>
              (http_log # <<>> /\ http_log[Len(http_log)].reply.status = 200)
        /\ ~ OwnReplyOk =>
              (last.value.status = "error" /\ last.value.content \in FallbackContents)
        /\ Len(chat_history) >= 2
        /\ chat_history[Len(chat_history) - 1].role = "user"
        /\ chat_history[Len(chat_history)] = AssistantEntry(last.value.content)

\* C11 witness: the server answered 200 with a body that does not decode, and
\* the chat recorded the fallback text as the assistant's reply
C11_Witness ==
    /\ last.op = "chat"
    /\ last.outcome = "returned"
    /\ http_log # <<>>
    /\ http_log[Len(http_log)].reply.status = 200
    /\ ~ http_log[Len(http_log)].reply.valid
    /\ last.value.status = "error"
    /\ chat_history[Len(chat_history)].message = "I'm experiencing technical difficulties."

----------------------------------------------------------------------------
(* Two chat() invocations, under SpecTasks *)

\* C12: for two chat() invocations on one FilmChatSystem, in every
\* interleaving the user entry and the assistant entry of an invocation are
\* adjacent in chat_history, no entry of the other invocation between them
C12_EntriesAdjacent ==
    \A h \in Handlers :
        /\ tasks[h].pc \in {"generate", "respond"} =>
              /\ Len(chat_history) = tasks[h].user_at
              /\ chat_history[tasks[h].user_at] = UserEntry(tasks[h].message)
        /\ tasks[h].pc = "done" =>
              /\ tasks[h].assistant_at = tasks[h].user_at + 1
              /\ chat_history[tasks[h].user_at] = UserEntry(tasks[h].message)
              /\ chat_history[tasks[h].assistant_at].role = "assistant"

\* C12 witness: both handlers' invocations are done, with different messages
C12_Witness ==
    /\ \A h \in Handlers : tasks[h].pc = "done"
    /\ tasks["handler 1"].message # tasks["handler 2"].message
    /\ tasks["handler 2"].user_at < tasks["handler 1"].user_at
    /\ Len(chat_history) = 4

----------------------------------------------------------------------------
(* The store across processes, under SpecProcess *)

\* C13: a newly constructed FilmRAGCore holds an empty store whatever the
\* file contains; neither construction nor an add_* call reads the file, so
\* the file an addition wrote holds only the entries the current process
\* added (unless load_knowledge_store was called)
C13_RebuiltPerProcess ==
    /\ last.op = "__init__" => knowledge_store = EmptyStore
    /\ ~ session.loaded => KeysOf(knowledge_store) = session.added
    /\ (/\ last.op \in {"add_screenplay", "add_mood_board"}
        /\ last.outcome = "returned"
        /\ ~ session.loaded) =>
            /\ store_file.state = "complete"
            /\ KeysOf(store_file.doc) = session.added

\* C13 witness: a process that found records in the file added another one,
\* and the file now holds the added record only
C13_Witness ==
    /\ last.op = "add_screenplay"
    /\ last.outcome = "returned"
    /\ ~ session.loaded
    /\ session.inherited # {}
    /\ session.inherited \cap session.added = {}
    /\ KeysOf(store_file.doc) = session.added

----------------------------------------------------------------------------
(* One record per key, under SpecStore *)

\* the records add_screenplay can store, whatever the store held before
FreshScreenplayRecords ==
    UNION { {ScreenplayRecord(text, cs) : cs \in chunk_screenplay(text)} : text \in StoreTexts }

FreshMoodBoardRecords == {MoodBoardRecord(visual_data) : visual_data \in VisualData}

\* the step changed dict d into e at key k only, to a record among fresh
PutAt(d, e, k, fresh) ==
    /\ DOMAIN e = DOMAIN d \cup {k}
    /\ e[k] \in fresh
    /\ \A x \in DOMAIN d \ {k} : e[x] = d[x]

\* C14: add_screenplay (add_mood_board) stores one record under its title
\* (project name), replacing the record of an existing key wholesale, and
\* leaves every other screenplay, every mood board (screenplay) and the
\* relationships unchanged
C14_OneRecordPerKey ==
    [][ /\ last'.op = "add_screenplay" =>
              /\ \E title \in Titles :
                    PutAt(knowledge_store.screenplays, knowledge_store'.screenplays,
                          title, FreshScreenplayRecords)
              /\ knowledge_store'.mood_boards = knowledge_store.mood_boards
              /\ knowledge_store'.relationships = knowledge_store.relationships
        /\ last'.op = "add_mood_board" =>
              /\ \E project_name \in Projects :
                    PutAt(knowledge_store.mood_boards, knowledge_store'.mood_boards,
                          project_name, FreshMoodBoardRecords)
              /\ knowledge_store'.screenplays = knowledge_store.screenplays
              /\ knowledge_store'.relationships = knowledge_store.relationships
      ]_vars

\* C14 witness: a screenplay was added under a title the store already held,
\* next to another screenplay and a mood board
C14_Witness ==
    /\ last.op = "add_screenplay"
    /\ session.replaced
    /\ Cardinality(DOMAIN knowledge_store.screenplays) = 2
    /\ knowledge_store.mood_boards # EmptyDict

----------------------------------------------------------------------------
(* Upload ids, under SpecOps *)

\* C15: over any sequence of process_upload calls, two uploads of different
\* files (different content or different source path) never receive the same
\* upload_id
C15_UniqueUploadIds ==
    \A u, v \in upload_log : u.file # v.file => u.upload_id # v.upload_id

----------------------------------------------------------------------------
(* The upload tab, under SpecUi *)

\* process_upload returned an error record or raised
ProcessUploadFailed(call) ==
    call.made /\ (call.outcome = "raised" \/ "error" \in DOMAIN call.value)

\* C16: whenever process_upload returns an error record or raises,
\* upload_file returns a string beginning with the error glyph and leaves
\* current_project unchanged; current_project is set only by a successful
\* upload
C16_FailedUploadShown ==
    [][ /\ (last'.op = "upload_file" /\ ProcessUploadFailed(ui_upload'))
            => /\ last'.outcome = "returned"
               /\ Head(last'.value) = ErrorGlyph
               /\ current_project' = current_project
        /\ current_project' # current_project
            => /\ last'.op = "upload_file"
               /\ ui_upload'.made
               /\ ~ ProcessUploadFailed(ui_upload')
               /\ last'.value[1] = "# Upload Successful" ]_vars

\* a project is current and an upload into another one has just failed by an
\* exception
C16_Witness ==
    /\ last.op = "upload_file"
    /\ ui_upload.made /\ ui_upload.outcome = "raised"
    /\ current_project = Project(DefaultProject)
    /\ Head(last.value) = ErrorGlyph

----------------------------------------------------------------------------
(* The setup script, under SpecSetup *)

\* the fixed order of the steps of run_setup
SetupOrder ==
    <<"check_python_deps", "check_ollama_installed", "install_ollama",
      "start_ollama_service", "download_model", "test_ollama_functionality",
      "create_config_files", "save_system_status">>

StepIndex(step) == CHOOSE i \in 1..Len(SetupOrder) : SetupOrder[i] = step

\* the step did not do its work: it returned False or raised (a False of
\* check_ollama_installed is the answer that Ollama is absent, not a failure)
StepFailed(done) ==
    \/ done.outcome = "raised"
    \/ done.outcome = "false" /\ done.step # "check_ollama_installed"

\* C17: run_setup runs its steps in the fixed order, install only when
\* Ollama is absent; it returns False at the first failing step without
\* running any later step, so the config and STATUS.md files are written
\* only after the service started, a model was pulled and the test request
\* succeeded
C17_FixedOrderStopAtFailure ==
    LET steps == setup.steps IN
    /\ \A i \in 1..Len(steps) :
          /\ i = 1 => steps[i].step = SetupOrder[1]
          /\ i > 1 =>
               /\ ~ StepFailed(steps[i-1])
               /\ StepIndex(steps[i].step) > StepIndex(steps[i-1].step)
               /\ steps[i].step = "install_ollama"
                    <=> (steps[i-1].step = "check_ollama_installed"
                         /\ steps[i-1].outcome = "false")
               /\ steps[i].step # "install_ollama"
                    => \A k \in (StepIndex(steps[i-1].step) + 1)..(StepIndex(steps[i].step) - 1) :
                          SetupOrder[k] = "install_ollama"
    /\ setup.returned = "False" <=> (steps # <<>> /\ StepFailed(steps[Len(steps)]))
    /\ setup.returned = "True"
          <=> (steps # <<>> /\ steps[Len(steps)] = [step |-> "save_system_status",
                                                   outcome |-> "true"])
    /\ setup.written # {}
          => /\ setup.service_started
             /\ setup.model_ready # {}
             /\ setup.tested
             /\ \E i, j, k \in 1..Len(steps) :
                   /\ i < j /\ j < k
                   /\ steps[i] = [step |-> "start_ollama_service", outcome |-> "true"]
                   /\ steps[j] = [step |-> "download_model", outcome |-> "true"]
                   /\ steps[k] = [step |-> "test_ollama_functionality", outcome |-> "true"]

\* a second run stops at the failing test, after an install and a pull of
\* the fallback model, and writes nothing over the files of the first run
C17_Witness ==
    /\ setup.run = 2
    /\ setup.returned = "False"
    /\ Len(setup.steps) = 6
    /\ setup.steps[3].step = "install_ollama"
    /\ setup.steps[6] = [step |-> "test_ollama_functionality", outcome |-> "false"]
    /\ setup.model_ready = {SetupFallbackModel}
    /\ setup.written = {}
    /\ "STATUS.md" \in setup.files

----------------------------------------------------------------------------
(* Screenplay metadata, under SpecStore *)

\* the counts of a stored screenplay, taken from its chunks and entities
CountsOf(record) ==
    [total_chunks |-> Len(record.chunks),
     total_characters |-> Cardinality(DOMAIN record.entities.characters),
     total_locations |-> Cardinality(DOMAIN record.entities.locations)]

\* C18: after any sequence of add_screenplay calls, every stored screenplay
\* has metadata.total_chunks = len(chunks), metadata.total_characters = the
\* number of keys of entities.characters and metadata.total_locations = the
\* number of keys of entities.locations, and add_screenplay returns exactly
\* that stored metadata
C18_MetadataCounts ==
    [][ /\ \A title \in DOMAIN knowledge_store'.screenplays :
              knowledge_store'.screenplays[title].metadata
                  = CountsOf(knowledge_store'.screenplays[title])
        /\ (last'.op = "add_screenplay" /\ last'.outcome = "returned")
              => \E title \in DOMAIN knowledge_store'.screenplays :
                    /\ \A other \in DOMAIN knowledge_store.screenplays \ {title} :
                          knowledge_store'.screenplays[other]
                              = knowledge_store.screenplays[other]
                    /\ last'.value = CountsOf(knowledge_store'.screenplays[title]) ]_vars

\* two screenplays are stored, one of them with fewer locations than chunks,
\* and the call has returned the counts of the one it stored
C18_Witness ==
    /\ last.op = "add_screenplay" /\ last.outcome = "returned"
    /\ Cardinality(DOMAIN knowledge_store.screenplays) = 2
    /\ \E title \in DOMAIN knowledge_store.screenplays :
          /\ last.value = knowledge_store.screenplays[title].metadata
          /\ last.value.total_chunks > last.value.total_locations
          /\ last.value.total_characters > 0

----------------------------------------------------------------------------
(* The extraction report, under SpecPdf *)

\* the annotations of all pages of a PDF
PdfAnnotations(pdf) ==
    UNION { {BlockAnnotations(pdf.pages[p].blocks)[i] :
                i \in 1..Len(BlockAnnotations(pdf.pages[p].blocks))} :
            p \in 1..Len(pdf.pages) }

\* C19: after every successful call of extract_from_pdf, also a second call
\* on the same extractor or a call following a failed one, the report has
\* len(images) = metadata.total_images and every image and text annotation
\* of the returned report and of extraction_report.json comes from that
\* call's PDF
C19_ReportOfThisPdf ==
    (last.op = "extract_from_pdf" /\ ~ last.value.is_none) =>
        LET report == last.value.report
            project == report.metadata.project_name
            on_disk == pdf_disk.files[<<project, <<"extraction_report.json">> >>].report
        IN \A pdf \in PdfDocuments :
              pdf.path = report.metadata.source_pdf =>
                 \A r \in {report, on_disk} :
                    /\ Len(r.images) = r.metadata.total_images
                    /\ \A i \in 1..Len(r.images) :
                          /\ r.images[i].path[1] = project
                          /\ r.images[i].page \in 1..Len(pdf.pages)
                    /\ \A i \in 1..Len(r.text_annotations) :
                          r.text_annotations[i] \in PdfAnnotations(pdf)

----------------------------------------------------------------------------
(* The demo's configuration, under SpecDemo *)

\* the options analyze_screenplay reads are in the config
ConfigUsable(cfg) ==
    /\ "ollama" \in DOMAIN cfg
    /\ "temperature" \in DOMAIN cfg.ollama
    /\ "max_tokens" \in DOMAIN cfg.ollama
    /\ "timeout" \in DOMAIN cfg.ollama

\* C20: load_config never raises, returns the defaults when
\* ollama_config.json is missing or unparseable, the resulting config always
\* contains ollama.temperature, ollama.max_tokens and ollama.timeout that
\* analyze_screenplay reads, and no operation mutates self.config
C20_ConfigAlwaysUsable ==
    [][ /\ last'.op = "load_config" =>
              /\ last'.outcome = "returned"
              /\ config_file'.state # "json" => config' = DefaultConfig
        /\ ConfigUsable(config')
        /\ config' # config => last'.op = "load_config" ]_vars

----------------------------------------------------------------------------
(* The chunks' character sets and numbering, under Spec *)

\* the segments of the trimmed lines that hold a non-blank line, in order
SegmentList(T) ==
    SubSeqAt([i \in 1..Len(T) + 1 |-> i - 1], {s + 1 : s \in Segments(T)})

\* the lines of segment s after its boundary line
LinesAfterHeader(T, s) ==
    {T[i] : i \in {j \in 1..Len(T) : SegmentOf(T, j) = s /\ ~ SceneBoundary(T[j])}}

\* C21: each chunk's characters list has no duplicates and contains exactly
\* the cue lines that occur after the chunk's own header and before the next
\* scene boundary; a cue is never attributed to an earlier or a later chunk
C21_ScopedCharacters ==
    pc = "chunked" =>
        LET T == TrimmedLines
            segs == SegmentList(T)
        IN /\ Len(chunks) = Len(segs)
           /\ \A k \in 1..Len(chunks) :
                 LET cs == chunks[k].characters IN
                 /\ \A i, j \in 1..Len(cs) : cs[i] = cs[j] => i = j
                 /\ Range(cs) = {l \in LinesAfterHeader(T, segs[k]) : Cue(l)}

\* non-blank text precedes the first scene boundary
LeadingText(T) ==
    \E i \in 1..Len(T) : T[i] # <<>> /\ \A j \in 1..i : ~ SceneBoundary(T[j])

\* C22: scene_number increases by 1 in list order, starts at 0 when non-blank
\* text precedes the first scene boundary and at 1 otherwise, and the number
\* of chunks is the number of boundary lines, plus 1 if there is such leading
\* text (0 chunks for blank input)
C22_ConsecutiveNumbers ==
    pc = "chunked" =>
        LET T == TrimmedLines
            boundaries == Cardinality({i \in 1..Len(T) : SceneBoundary(T[i])})
        IN /\ Len(chunks) = boundaries + (IF LeadingText(T) THEN 1 ELSE 0)
           /\ (\A i \in 1..Len(T) : T[i] = <<>>) => chunks = <<>>
           /\ chunks # <<>> =>
                 chunks[1].scene_number = (IF LeadingText(T) THEN 0 ELSE 1)
           /\ \A k \in 2..Len(chunks) :
                 chunks[k].scene_number = chunks[k-1].scene_number + 1

\* C22 witness: leading text and two boundary lines in a row give the chunks
\* 0, 1 and 2
C22_Witness ==
    /\ pc = "chunked"
    /\ Len(chunks) = 3
    /\ chunks[1].scene_header = <<>>
    /\ chunks[3].scene_number = 2
    /\ Len(ChunkLines(chunks[2])) = 1

----------------------------------------------------------------------------
(* The locations of the entity map, under Spec *)

\* the chunks whose header yields the location
ChunksAt(loc) ==
    {k \in 1..Len(chunks) :
        chunks[k].scene_header # <<>> /\ LocationOf(chunks[k].scene_header) = loc}

\* C23: entities['locations'][loc].scenes has exactly one element, the
\* scene_number of the first chunk whose header yields loc; later chunks at
\* the same location do not change that record
C23_LocationRecordedOnce ==
    pc = "extracted" =>
        /\ DOMAIN entities.locations
              = {LocationOf(chunks[k].scene_header) :
                    k \in {j \in 1..Len(chunks) : chunks[j].scene_header # <<>>}} \ {<<>>}
        /\ \A loc \in DOMAIN entities.locations :
              LET first == CHOOSE k \in ChunksAt(loc) : \A j \in ChunksAt(loc) : k <= j IN
              /\ Len(entities.locations[loc].scenes) = 1
              /\ entities.locations[loc].scenes[1] = chunks[first].scene_number
              /\ entities.locations[loc].type = "location"

\* C23 witness: leading text with a character cue, then two chunks at one
\* location: the location keeps the first of the two scenes
C23_Witness ==
    /\ pc = "extracted"
    /\ Len(chunks) = 3
    /\ DOMAIN entities.characters # {}
    /\ \E loc \in DOMAIN entities.locations :
          /\ ChunksAt(loc) = {2, 3}
          /\ entities.locations[loc].scenes = <<1>>

\* an INT. or EXT. scene header
InteriorOrExterior(header) ==
    HasPrefix(header, <<"I","N","T",".">>) \/ HasPrefix(header, <<"E","X","T",".">>)

\* C24: every key of entities['locations'] is derived from an INT. or EXT.
\* scene header; chunks opened by a FADE IN / FADE OUT boundary and the
\* header-less leading chunk contribute no location
C24_LocationsFromIntExt ==
    pc = "extracted" =>
        \A loc \in DOMAIN entities.locations :
            /\ \E k \in ChunksAt(loc) : InteriorOrExterior(chunks[k].scene_header)
            /\ \A k \in 1..Len(chunks) :
                  entities.locations[loc].scenes = <<chunks[k].scene_number>>
                      => InteriorOrExterior(chunks[k].scene_header)

----------------------------------------------------------------------------
(* The chat history, under SpecLLM *)

\* even length, roles user, assistant, user, assistant, ...
Alternating(history) ==
    /\ Len(history) % 2 = 0
    /\ \A i \in 1..Len(history) :
          history[i].role = (IF i % 2 = 1 THEN "user" ELSE "assistant")

\* C25: after any sequence of completed chat and clear_history calls,
\* chat_history has even length, its roles alternate user, assistant starting
\* with user, each assistant message is the content returned for the
\* immediately preceding user message, and clear_history leaves it empty
C25_HistoryAlternates ==
    [][ /\ Alternating(chat_history')
        /\ last'.op = "chat" =>
              /\ last'.outcome = "returned"
              /\ Len(chat_history') = Len(chat_history) + 2
              /\ SubSeq(chat_history', 1, Len(chat_history)) = chat_history
              /\ chat_history'[Len(chat_history') - 1].message \in Messages
              /\ chat_history'[Len(chat_history')].message = last'.value.content
        /\ last'.op = "clear_history" => chat_history' = <<>>
        /\ last'.op \notin {"chat", "clear_history"} => chat_history' = chat_history ]_vars

\* C25 witness: two exchanges, the first answered by a canned reply and the
\* second by the model
C25_Witness ==
    /\ last.op = "chat"
    /\ Len(chat_history) = 4
    /\ last.value.status = "success"
    /\ chat_history[4].message = last.value.content
    /\ chat_history[2].message = "I'm experiencing technical difficulties."

\* the RAG engine's query of the last chat answered: it posted its request
\* and got a 200 reply that decodes
RagQuerySucceeded ==
    /\ rag_engine
    /\ Len(http_log) = 2
    /\ http_log[1].request.prompt.template = "query"
    /\ http_log[1].reply.status = 200
    /\ http_log[1].reply.valid

\* C26: in a 'success' response of generate_response, has_rag_context is True
\* only if a RAG engine is attached and its query succeeded; when the query
\* failed (non-200 or exception), no RAG text is inserted into the prompt as
\* project context and has_rag_context is False
C26_RagContextOnlyOnSuccess ==
    (last.op = "chat" /\ last.value.status = "success") =>
        LET sent == http_log[Len(http_log)].request IN
        /\ sent.prompt.template = "chat"
        /\ last.value.has_rag_context => RagQuerySucceeded
        /\ ~ RagQuerySucceeded =>
              /\ sent.prompt.context = <<>>
              /\ ~ last.value.has_rag_context

----------------------------------------------------------------------------
(* File types of uploads, under SpecOps *)

\* the category of a lower-cased extension: screenplay, then mood_board,
\* then image
CategoryOf(extension) ==
    IF extension \in { <<".","f","o","u","n","t","a","i","n">>, <<".","f","d","x">>,
                       <<".","t","x","t">>, <<".","p","d","f">> }
    THEN "screenplay"
    ELSE IF extension = <<".","z","i","p">> THEN "mood_board"
    ELSE IF extension \in { <<".","j","p","g">>, <<".","j","p","e","g">>,
                            <<".","p","n","g">>, <<".","b","m","p">> }
    THEN "image"
    ELSE "unknown"

----------------------------------------------------------------------------
(* The start of the service, under SpecService *)

\* C28: start_ollama_service always terminates: it sends one initial status
\* request and then at most 15 polls of GET /api/tags, returns True as soon
\* as any of them answers 200 (without starting a second server process if
\* the initial one did), and returns False after 15 polls none of which
\* answered 200
C28_ServiceTerminates ==
    /\ <>(service.pc = "done")
    /\ [](/\ service.requests <= 1
          /\ service.polls <= 15
          /\ service.popen <= 1
          /\ service.polls > 0 => (service.requests = 1 /\ service.popen = 1)
          /\ service.answered => (service.pc = "done" /\ service.returned = "True")
          /\ service.returned = "True" => service.answered
          /\ (service.answered /\ service.polls = 0) => service.popen = 0
          /\ service.returned = "False" => (service.polls = 15 /\ ~ service.answered)
          /\ (service.polls = 15 /\ ~ service.answered) => <>(service.returned = "False"))

\* C28 witness: fifteen polls, some of them raising, none answering 200, and
\* the call has returned False
C28_Witness ==
    /\ service.pc = "done"
    /\ service.returned = "False"
    /\ service.polls = 15
    /\ service.sleeps \in 1..14
    /\ service.popen = 1

============================================================================
